---------------------------- MODULE Spec2Model ----------------------------
(***************************************************************************)
(* A model of the observation / dependency / recompute core of the         *)
(* repository: src/core/observer/index.js (observe, Observer,              *)
(* defineReactive, set, del, dependArray), the array interceptor           *)
(* (observer/array.js), the computed / watch / data set-up of              *)
(* instance/state.js and Vue.use.  Dep and Watcher (observer/dep.js,       *)
(* observer/watcher.js) are not part of the sources at hand; they are      *)
(* modelled from the written specification.                                *)
(*                                                                         *)
(* The JavaScript heap is a function from object ids to objects.  Every    *)
(* operation of the library is synchronous, so each operation is one       *)
(* action; its body is a pure operator on a state record `s` that threads  *)
(* the heap, the observers, the dependency sets, the watchers, the target  *)
(* stack and the log of the events of the running operation.               *)
(***************************************************************************)
EXTENDS Integers, Sequences, FiniteSets, TLC

VARIABLES heap, obs, deps, ws, targetStack, shouldObserve, last, pre

vars == <<heap, obs, deps, ws, targetStack, shouldObserve, last, pre>>

(***************************************************************************)
(* Values.  A JavaScript value is a pair <<tag, payload>>.                 *)
(***************************************************************************)
Undef == <<"undef", 0>>

Null == <<"null", 0>>

NaN == <<"nan", 0>>

Num(n) == <<"num", n>>

Ref(o) == <<"ref", o>>

Bool(b) == <<"bool", IF b THEN 1 ELSE 0>>

IsRef(v) == v[1] = "ref"

\* newVal === value
StrictEq(a, b) == a = b /\ a # NaN

\* Object.is: what "the same value" means for a value read back
SameValue(a, b) == a = b

\* ToBoolean of the values the model uses
Truthy(v) ==
    CASE v[1] = "undef" -> FALSE
      [] v[1] = "nan" -> FALSE
      [] v[1] = "null" -> FALSE
      [] v[1] = "num" -> v[2] # 0
      [] v[1] = "bool" -> v[2] = 1
      [] OTHER -> TRUE

(***************************************************************************)
(* The state record threaded through an operation.                         *)
(***************************************************************************)
Cur ==
    [heap |-> heap, obs |-> obs, deps |-> deps, ws |-> ws,
     targetStack |-> targetStack, shouldObserve |-> shouldObserve,
     log |-> <<>>]

\* the part of a state a later state is compared with
Snapshot(s) ==
    [heap |-> s.heap, obs |-> s.obs, deps |-> s.deps, ws |-> s.ws,
     shouldObserve |-> s.shouldObserve]

Commit(s) ==
    /\ heap' = s.heap
    /\ obs' = s.obs
    /\ deps' = s.deps
    /\ ws' = s.ws
    /\ targetStack' = s.targetStack
    /\ shouldObserve' = s.shouldObserve
    /\ pre' = Snapshot(Cur)

\* one event of the running operation: <<kind, a, b>>
Ev(kind, a, b) == <<kind, a, b>>

Emit(s, e) == [s EXCEPT !.log = Append(@, e)]

RECURSIVE CountIn(_, _)
CountIn(sq, e) ==
    IF sq = <<>> THEN 0
    ELSE (IF Head(sq) = e THEN 1 ELSE 0) + CountIn(Tail(sq), e)

RECURSIVE CountKind(_, _)
CountKind(sq, kind) ==
    IF sq = <<>> THEN 0
    ELSE (IF Head(sq)[1] = kind THEN 1 ELSE 0) + CountKind(Tail(sq), kind)

SeqToSet(sq) == {sq[i] : i \in DOMAIN sq}

Contains(sq, x) == \E i \in DOMAIN sq : sq[i] = x

RECURSIVE Without(_, _)
Without(sq, x) ==
    IF sq = <<>> THEN <<>>
    ELSE IF Head(sq) = x THEN Without(Tail(sq), x)
    ELSE <<Head(sq)>> \o Without(Tail(sq), x)


(***************************************************************************)
(* Heap objects.                                                           *)
(*   kind  : "rec" (plain record), "arr" (sequence), "vnode", "other"      *)
(*   ext   : Object.isExtensible                                           *)
(*   isVue : the _isVue flag                                               *)
(*   ob    : the __ob__ back-link (an index into obs, 0 when absent)       *)
(*   props : own properties of a record, key -> property                   *)
(*   elems : elements of a sequence                                        *)
(* A property is its original descriptor (a data slot, or a user accessor  *)
(* pair that reads and writes the slot) under a stack of Reactive Cells:   *)
(* each defineReactive call closes over the accessor it found and installs *)
(* a new accessor pair with its own dep, val and childOb.                  *)
(***************************************************************************)
\* keys found on Object.prototype
ProtoKeys == {"toString"}

ProtoValue == <<"fn", 0>>

DataProp(v) ==
    [conf |-> TRUE, enum |-> TRUE, hasGet |-> FALSE, hasSet |-> FALSE,
     slot |-> v, cells |-> <<>>]

AccessorProp(get, set, v) ==
    [conf |-> TRUE, enum |-> TRUE, hasGet |-> get, hasSet |-> set,
     slot |-> v, cells |-> <<>>]

FrozenProp(v) == [DataProp(v) EXCEPT !.conf = FALSE]

\* the slot of the accessor pair proxy() defines: it reads and writes
\* this[sourceKey][key], sourceKey being '_data' or '_props'
ProxySlot(sourceKey) == <<"proxy", IF sourceKey = "_data" THEN 0 ELSE 1>>

ProxySource(slot) == IF slot[2] = 0 THEN "_data" ELSE "_props"

\* sharedPropertyDefinition
ProxyProp(sourceKey) == AccessorProp(TRUE, TRUE, ProxySlot(sourceKey))

NoProps == [k \in {} |-> DataProp(Undef)]

Rec(props) ==
    [kind |-> "rec", props |-> props, ext |-> TRUE, isVue |-> FALSE, ob |-> 0,
     elems |-> <<>>]

Arr(elems) ==
    [kind |-> "arr", props |-> NoProps, ext |-> TRUE, isVue |-> FALSE, ob |-> 0,
     elems |-> elems]

\* isObject(value): value !== null && typeof value === 'object'
IsObject(v) == IsRef(v)

IsArray(s, v) == IsRef(v) /\ s.heap[v[2]].kind = "arr"

\* isPlainObject(value): Object.prototype.toString is '[object Object]'
IsPlainObject(s, v) == IsRef(v) /\ s.heap[v[2]].kind = "rec"

HasOwn(s, o, k) == k \in DOMAIN s.heap[o].props

\* key in target, for a record whose prototype is Object.prototype
KeyIn(s, o, k) == HasOwn(s, o, k) \/ k \in ProtoKeys

\* property.get / property.set of Object.getOwnPropertyDescriptor
PropHasGet(p) == IF p.cells # <<>> THEN TRUE ELSE p.hasGet

PropHasSet(p) == IF p.cells # <<>> THEN TRUE ELSE p.hasSet

\* Object.keys(obj), in the fixed order of KeyOrder
KeyOrder == <<"a", "b", "c", "k", "ok", "toString">>

RECURSIVE EnumKeysFrom(_, _)
EnumKeysFrom(props, i) ==
    IF i > Len(KeyOrder) THEN <<>>
    ELSE (IF KeyOrder[i] \in DOMAIN props /\ props[KeyOrder[i]].enum
          THEN <<KeyOrder[i]>> ELSE <<>>) \o EnumKeysFrom(props, i + 1)

ObjectKeys(s, o) == EnumKeysFrom(s.heap[o].props, 1)

(***************************************************************************)
(* Dep and the Target Pointer (observer/dep.js)                            *)
(***************************************************************************)
\* Dep.target
Target(s) ==
    IF s.targetStack = <<>> THEN 0 ELSE s.targetStack[Len(s.targetStack)]

\* pushTarget(w), w = 0 for no watcher; the event records the target it
\* replaces
PushTarget(s, w) ==
    [s EXCEPT !.targetStack = Append(@, w), !.log = Append(@, Ev("push", w, Target(s)))]

TargetBelow(s) ==
    IF Len(s.targetStack) < 2 THEN 0 ELSE s.targetStack[Len(s.targetStack) - 1]

\* popTarget(); the event records the target popped and the one restored
PopTarget(s) ==
    [s EXCEPT !.targetStack = SubSeq(@, 1, Len(@) - 1),
              !.log = Append(@, Ev("pop", Target(s), TargetBelow(s)))]

\* new Dep(): the new dep is Len(s.deps), its subs are empty
NewDep(s) == [s EXCEPT !.deps = Append(@, <<>>)]

DepAddSub(s, d, w) ==
    IF Contains(s.deps[d], w) THEN s
    ELSE [s EXCEPT !.deps[d] = Append(@, w)]

DepRemoveSub(s, d, w) == [s EXCEPT !.deps[d] = Without(@, w)]

\* an addDep that subscribes on every read
WatcherAddDepAlways(s, w, d) ==
    [s EXCEPT !.deps[d] = Append(@, w), !.ws[w].newDeps = @ \cup {d}]

\* Watcher.addDep(dep)
WatcherAddDep(s, w, d) ==
    IF d \in s.ws[w].newDeps THEN s
    ELSE IF d \in s.ws[w].deps THEN [s EXCEPT !.ws[w].newDeps = @ \cup {d}]
    ELSE DepAddSub([s EXCEPT !.ws[w].newDeps = @ \cup {d}], d, w)

\* Dep.depend(): register the current target, a no-op without one
DepDepend(s, d) == IF Target(s) = 0 THEN s ELSE WatcherAddDep(s, Target(s), d)

(***************************************************************************)
(* dependArray and the reactiveGetter (observer/index.js)                  *)
(***************************************************************************)
\* e && e.__ob__ && e.__ob__.dep.depend()
DependElem(s, e) ==
    IF IsRef(e) /\ s.heap[e[2]].ob # 0
    THEN DepDepend(s, s.obs[s.heap[e[2]].ob].dep)
    ELSE s

RECURSIVE DependArrayFrom(_, _, _), DependNested(_, _)

\* a dependArray that stops at the elements of the sequence it is given
DependNestedNone(s, e) == s

\* if (Array.isArray(e)) dependArray(e)
DependNested(s, e) == IF IsArray(s, e) THEN DependArrayFrom(s, e[2], 1) ELSE s

\* dependArray(value), from element i on
DependArrayFrom(s, a, i) ==
    IF i > Len(s.heap[a].elems) THEN s
    ELSE DependArrayFrom(
            DependNested(DependElem(s, s.heap[a].elems[i]), s.heap[a].elems[i]),
            a, i + 1)

DependArray(s, a) == DependArrayFrom(s, a, 1)

\* if (childOb) { childOb.dep.depend(); if (Array.isArray(value)) dependArray(value) }
DependChild(s, childOb, value) ==
    IF childOb = 0 THEN s
    ELSE IF IsArray(s, value)
    THEN DependArray(DepDepend(s, s.obs[childOb].dep), value[2])
    ELSE DepDepend(s, s.obs[childOb].dep)

\* a getter that subscribes the target without the target recording the dep
GetterCollectUnrecorded(r, c) ==
    [s |-> IF Target(r.s) = 0 THEN r.s ELSE DepAddSub(r.s, c.dep, Target(r.s)),
     ret |-> r.ret]

\* the rest of reactiveGetter once the value `r.ret` is fetched:
\* if (Dep.target) { dep.depend(); ... } return value
GetterCollect(r, c) ==
    [s |-> IF Target(r.s) = 0 THEN r.s
           ELSE DependChild(DepDepend(r.s, c.dep), c.childOb, r.ret),
     ret |-> r.ret]

\* the accessor `i` layers up in the property o.k is read: layer 0 is the
\* original descriptor, layer i > 0 is the reactiveGetter of cell i
RECURSIVE GetLayer(_, _, _, _), ReadProp(_, _, _)
GetLayer(s, o, k, i) ==
    IF i = 0 THEN
        IF s.heap[o].props[k].slot[1] = "proxy"
        THEN ReadProp(s, s.heap[o].props[ProxySource(s.heap[o].props[k].slot)].slot[2], k)
        ELSE [s |-> s,
              ret |-> IF s.heap[o].props[k].hasSet /\ ~s.heap[o].props[k].hasGet
                      THEN Undef ELSE s.heap[o].props[k].slot]
    ELSE
        GetterCollect(IF s.heap[o].props[k].cells[i].getter
                      THEN GetLayer(s, o, k, i - 1)
                      ELSE [s |-> s, ret |-> s.heap[o].props[k].cells[i].val],
                      s.heap[o].props[k].cells[i])

\* obj[key] on a record
ReadProp(s, o, k) ==
    IF HasOwn(s, o, k) THEN GetLayer(s, o, k, Len(s.heap[o].props[k].cells))
    ELSE [s |-> s, ret |-> IF k \in ProtoKeys THEN ProtoValue ELSE Undef]

(***************************************************************************)
(* Watcher (observer/watcher.js) and the computed getter of state.js.      *)
(* A watcher's evaluator is a record [t, o, p, w]:                         *)
(*   "path"   reads o.p[1].p[2]...                                         *)
(*   "branch" reads o.p[1] and then o.p[2] if it is truthy, else o.p[3]    *)
(*   "sum"    reads o.p[1] + o.p[2]                                        *)
(*   "len"    reads the sequence o.p[1] and returns its length             *)
(*   "comp"   reads the computed property of lazy watcher w                *)
(*   "init"   makes the instance w, initialising its state if it is new    *)
(* An evaluator that throws returns Threw.                                 *)
(***************************************************************************)
Threw == <<"throw", 0>>

EvPath(o, p) == [o |-> o, p |-> p, w |-> 0, t |-> "path"]

EvBranch(o, flag, a, b) == [o |-> o, p |-> <<flag, a, b>>, w |-> 0, t |-> "branch"]

EvSum(o, a, b) == [o |-> o, p |-> <<a, b>>, w |-> 0, t |-> "sum"]

EvLen(o, k) == [o |-> o, p |-> <<k>>, w |-> 0, t |-> "len"]

EvComp(w) == [o |-> 0, p |-> <<>>, w |-> w, t |-> "comp"]

\* a render function that makes the instance vm, whose data function
\* returns o.p[1].p[2]...
EvInit(vm, o, p) == [o |-> o, p |-> p, w |-> vm, t |-> "init"]

\* a + b on the values of the model
JsAdd(a, b) == IF a[1] = "num" /\ b[1] = "num" THEN Num(a[2] + b[2]) ELSE NaN

RECURSIVE ReadPath(_, _, _, _), ReadPathNext(_, _, _)

ReadPathNext(r, p, i) == ReadPath(r.s, r.ret, p, i)

\* base.p[i].p[i+1]...: reading a property of undefined throws
ReadPath(s, base, p, i) ==
    IF i > Len(p) THEN [s |-> s, ret |-> base]
    ELSE IF ~IsRef(base) THEN
        [s |-> s, ret |-> IF base \in {Undef, Null} THEN Threw ELSE Undef]
    ELSE IF s.heap[base[2]].kind # "rec" THEN [s |-> s, ret |-> Undef]
    ELSE ReadPathNext(ReadProp(s, base[2], p[i]), p, i + 1)

\* flag ? o.a : o.b, the flag being read
BranchPick(r, ev) ==
    IF Truthy(r.ret) THEN ReadProp(r.s, ev.o, ev.p[2])
    ELSE ReadProp(r.s, ev.o, ev.p[3])

SumResult(a, r) == [s |-> r.s, ret |-> JsAdd(a, r.ret)]

SumSecond(r, ev) == SumResult(r.ret, ReadProp(r.s, ev.o, ev.p[2]))

LenResult(r) ==
    [s |-> r.s,
     ret |-> IF IsArray(r.s, r.ret) THEN Num(Len(r.s.heap[r.ret[2]].elems))
             ELSE IF r.ret \in {Undef, Null} THEN Threw ELSE Undef]

\* dep.removeSub(w) for every dep of ds
RECURSIVE RemoveFromDeps(_, _, _)
RemoveFromDeps(s, w, ds) ==
    IF ds = {} THEN s
    ELSE RemoveFromDeps(DepRemoveSub(s, CHOOSE x \in ds : TRUE, w), w,
                        ds \ {CHOOSE x \in ds : TRUE})

SwapDeps(s, w) == [s EXCEPT !.ws[w].deps = s.ws[w].newDeps, !.ws[w].newDeps = {}]

\* Watcher.cleanupDeps(): drop the deps the pass did not touch, then swap
CleanupDeps(s, w) ==
    SwapDeps(RemoveFromDeps(s, w, s.ws[w].deps \ s.ws[w].newDeps), w)

\* Watcher.depend(): the current target subscribes to every dep w holds
RECURSIVE DependAll(_, _)
DependAll(s, ds) ==
    IF ds = {} THEN s
    ELSE DependAll(DepDepend(s, CHOOSE x \in ds : TRUE), ds \ {CHOOSE x \in ds : TRUE})

WatcherDepend(s, w) == DependAll(s, s.ws[w].deps)

RECURSIVE Evaluate(_, _), WatcherGet(_, _), ComputedGetter(_, _), InitData(_, _, _)

\* new Vue(options) inside a render function: the state is initialised once
MakeInstance(s, ev) ==
    [s |-> IF HasOwn(s, ev.w, "_data") THEN s ELSE InitData(s, ev.w, EvPath(ev.o, ev.p)),
     ret |-> Ref(ev.w)]

\* the evaluator `ev` is called
Evaluate(s, ev) ==
    CASE ev.t = "path" -> ReadPath(s, Ref(ev.o), ev.p, 1)
      [] ev.t = "branch" -> BranchPick(ReadProp(s, ev.o, ev.p[1]), ev)
      [] ev.t = "sum" -> SumSecond(ReadProp(s, ev.o, ev.p[1]), ev)
      [] ev.t = "len" -> LenResult(ReadProp(s, ev.o, ev.p[1]))
      [] ev.t = "comp" -> ComputedGetter(s, ev.w)
      [] ev.t = "init" -> MakeInstance(s, ev)
      [] OTHER -> [s |-> s, ret |-> Threw]

\* a pass that an error of the evaluator ends before the deps are diffed
WatcherGetFinishAbort(r, w) ==
    IF r.ret = Threw THEN [s |-> PopTarget(Emit(r.s, Ev("error", w, 0))), ret |-> r.ret]
    ELSE [s |-> CleanupDeps(PopTarget(r.s), w), ret |-> r.ret]

\* the end of Watcher.get(): an error of the evaluator is routed to the
\* error handler, the target is popped and the deps are diffed
WatcherGetFinish(r, w) ==
    [s |-> CleanupDeps(
             PopTarget(IF r.ret = Threw THEN Emit(r.s, Ev("error", w, 0)) ELSE r.s), w),
     ret |-> r.ret]

\* Watcher.get(): one evaluation pass
WatcherGet(s, w) ==
    WatcherGetFinish(Evaluate(Emit(PushTarget(s, w), Ev("eval", w, 0)), s.ws[w].getter), w)

EvaluateStore(r, w) ==
    [r.s EXCEPT !.ws[w].value = IF r.ret = Threw THEN @ ELSE r.ret,
                !.ws[w].dirty = FALSE]

\* Watcher.evaluate(): value = get(); dirty = false
WatcherEvaluate(s, w) == EvaluateStore(WatcherGet(s, w), w)

ComputedValue(s, w) == [s |-> s, ret |-> s.ws[w].value]

\* a computed getter that passes no dep on to the target
ComputedDependNone(s, w) == ComputedValue(s, w)

\* if (Dep.target) watcher.depend(); return watcher.value
ComputedDepend(s, w) ==
    ComputedValue(IF Target(s) # 0 THEN WatcherDepend(s, w) ELSE s, w)

\* a computed getter that evaluates on every read
ComputedGetterNoCache(s, w) ==
    IF w \notin DOMAIN s.ws THEN [s |-> s, ret |-> Undef]
    ELSE ComputedDepend(WatcherEvaluate(s, w), w)

\* computedGetter of createComputedGetter(key): w is this._computedWatchers[key]
ComputedGetter(s, w) ==
    IF w \notin DOMAIN s.ws THEN [s |-> s, ret |-> Undef]
    ELSE ComputedDepend(IF s.ws[w].dirty THEN WatcherEvaluate(s, w) ELSE s, w)

\* the end of Watcher.run(): the callback is called when the value changed
\* or is a composite
RunFinish(r, w) ==
    IF r.ret # Threw /\ (~StrictEq(r.ret, r.s.ws[w].value) \/ IsObject(r.ret))
    THEN Emit([r.s EXCEPT !.ws[w].value = r.ret], Ev("cb", w, 0))
    ELSE r.s

\* Watcher.run()
WatcherRun(s, w) == IF ~s.ws[w].active THEN s ELSE RunFinish(WatcherGet(s, w), w)

\* an update that leaves a lazy watcher as it is
WatcherUpdateKeepClean(s, w) ==
    IF s.ws[w].lazy THEN Emit(s, Ev("update", w, 0))
    ELSE WatcherRun(Emit(s, Ev("update", w, 0)), w)

\* Watcher.update(): a lazy watcher is marked dirty, an eager one re-evaluates
WatcherUpdate(s, w) ==
    IF s.ws[w].lazy THEN [Emit(s, Ev("update", w, 0)) EXCEPT !.ws[w].dirty = TRUE]
    ELSE WatcherRun(Emit(s, Ev("update", w, 0)), w)

\* Dep.notify(): walk a snapshot of the subscriber list
RECURSIVE UpdateEach(_, _)
UpdateEach(s, subs) ==
    IF subs = <<>> THEN s
    ELSE UpdateEach(WatcherUpdate(s, Head(subs)), Tail(subs))

\* a walk of the subscriber list itself, by index
RECURSIVE UpdateEachLive(_, _, _)
UpdateEachLive(s, d, i) ==
    IF i > Len(s.deps[d]) THEN s
    ELSE UpdateEachLive(WatcherUpdate(s, s.deps[d][i]), d, i + 1)

DepNotifyLive(s, d) == UpdateEachLive(Emit(s, Ev("notify", d, 0)), d, 1)

DepNotify(s, d) == UpdateEach(Emit(s, Ev("notify", d, 0)), s.deps[d])

NewWatcherStore(r, w) ==
    [r.s EXCEPT !.ws[w].value = IF r.ret = Threw THEN Undef ELSE r.ret]

WatcherRecord(ev, lazy, user) ==
    [deps |-> {}, newDeps |-> {}, value |-> Undef, getter |-> ev,
     dirty |-> lazy, active |-> TRUE, lazy |-> lazy, user |-> user]

\* new Watcher(vm, getter, cb, options): an eager watcher evaluates at once
NewWatcher(s, ev, lazy, user) ==
    IF lazy THEN [s EXCEPT !.ws = Append(@, WatcherRecord(ev, lazy, user))]
    ELSE NewWatcherStore(
            WatcherGet([s EXCEPT !.ws = Append(@, WatcherRecord(ev, lazy, user))],
                       Len(s.ws) + 1),
            Len(s.ws) + 1)

\* a teardown that leaves the watcher subscribed
WatcherTeardownKeepSubs(s, w) == [s EXCEPT !.ws[w].active = FALSE]

\* Watcher.teardown(): unsubscribe from every dep held; the watcher then
\* holds none
WatcherTeardown(s, w) ==
    IF ~s.ws[w].active THEN s
    ELSE [RemoveFromDeps(s, w, s.ws[w].deps) EXCEPT !.ws[w].active = FALSE,
                                                   !.ws[w].deps = {}]

\* an immediate call of the callback whatever the options say
ImmediateAlways(s, w, immediate, cbFails) ==
    Emit(s, Ev("immediate", w, s.ws[w].value))

\* if (options.immediate) cb.call(vm, watcher.value): an error of the
\* callback is routed to the error handler
Immediate(s, w, immediate, cbFails) ==
    IF ~immediate THEN s
    ELSE IF cbFails
    THEN Emit(Emit(s, Ev("immediate", w, s.ws[w].value)), Ev("cberror", w, 0))
    ELSE Emit(s, Ev("immediate", w, s.ws[w].value))

\* Vue.prototype.$watch(expOrFn, cb, options), cb a function: the watcher
\* is a user watcher; unwatchFn is returned
Watch(s, ev, immediate, cbFails) ==
    [s |-> Immediate(NewWatcher(s, ev, FALSE, TRUE), Len(s.ws) + 1, immediate, cbFails),
     ret |-> <<"unwatch", Len(s.ws) + 1>>]

\* unwatchFn() of the handle <<"unwatch", w>>
UnwatchFn(s, w) == WatcherTeardown(s, w)

(***************************************************************************)
(* observe, Observer and defineReactive (observer/index.js)                *)
(***************************************************************************)
IsServerRendering == FALSE

RECURSIVE Observe(_, _, _), NewObserver(_, _), WalkFrom(_, _, _, _),
          ObserveArrayFrom(_, _, _), DefineReactive(_, _, _, _, _, _, _)

\* an observe that never reuses the __ob__ it finds
ObserveNodeNoCache(s, o) ==
    IF /\ s.shouldObserve
       /\ ~IsServerRendering
       /\ (s.heap[o].kind = "arr" \/ s.heap[o].kind = "rec")
       /\ s.heap[o].ext
       /\ ~s.heap[o].isVue
    THEN NewObserver(s, o)
    ELSE [s |-> s, ret |-> 0]

\* an observe that does not test Object.isExtensible
ObserveNodeAnyExtent(s, o) ==
    IF s.heap[o].ob # 0 THEN [s |-> s, ret |-> s.heap[o].ob]
    ELSE IF /\ s.shouldObserve
            /\ ~IsServerRendering
            /\ (s.heap[o].kind = "arr" \/ s.heap[o].kind = "rec")
            /\ ~s.heap[o].isVue
    THEN NewObserver(s, o)
    ELSE [s |-> s, ret |-> 0]

\* an observe that does not test shouldObserve
ObserveNodeAnyTime(s, o) ==
    IF s.heap[o].ob # 0 THEN [s |-> s, ret |-> s.heap[o].ob]
    ELSE IF /\ ~IsServerRendering
            /\ (s.heap[o].kind = "arr" \/ s.heap[o].kind = "rec")
            /\ s.heap[o].ext
            /\ ~s.heap[o].isVue
    THEN NewObserver(s, o)
    ELSE [s |-> s, ret |-> 0]

\* the body of observe for the composite o: the node found, a new node, or
\* nothing (ret = 0)
ObserveNode(s, o) ==
    IF s.heap[o].ob # 0 THEN [s |-> s, ret |-> s.heap[o].ob]
    ELSE IF /\ s.shouldObserve
            /\ ~IsServerRendering
            /\ (s.heap[o].kind = "arr" \/ s.heap[o].kind = "rec")
            /\ s.heap[o].ext
            /\ ~s.heap[o].isVue
    THEN NewObserver(s, o)
    ELSE [s |-> s, ret |-> 0]

\* an observe that counts every call that finds or makes a node
ObserveCountAlways(r, asRootData) ==
    IF r.ret # 0
    THEN [s |-> [r.s EXCEPT !.obs[r.ret].vmCount = @ + 1], ret |-> r.ret]
    ELSE r

\* if (asRootData && ob) ob.vmCount++
ObserveCount(r, asRootData) ==
    IF asRootData /\ r.ret # 0
    THEN [s |-> [r.s EXCEPT !.obs[r.ret].vmCount = @ + 1], ret |-> r.ret]
    ELSE r

\* observe(value, asRootData): ret is the Observed Node, 0 for nothing
Observe(s, value, asRootData) ==
    IF ~IsObject(value) \/ s.heap[value[2]].kind = "vnode" THEN [s |-> s, ret |-> 0]
    ELSE ObserveCount(ObserveNode(s, value[2]), asRootData)

\* this.dep = new Dep(); this.vmCount = 0; def(value, '__ob__', this),
\* s having the new dep already
AttachObserver(s, o) ==
    Emit([s EXCEPT !.obs = Append(@, [dep |-> Len(s.deps), value |-> o, vmCount |-> 0]),
                   !.heap[o].ob = Len(s.obs) + 1],
         Ev("observer", Len(s.obs) + 1, o))

\* the rest of the constructor: observeArray(value) or walk(value)
ObserverInit(s, o) ==
    [s |-> IF s.heap[o].kind = "arr"
           THEN ObserveArrayFrom(s, s.heap[o].elems, 1)
           ELSE WalkFrom(s, o, ObjectKeys(s, o), 1),
     ret |-> s.heap[o].ob]

\* new Observer(value)
NewObserver(s, o) == ObserverInit(AttachObserver(NewDep(s), o), o)

\* Observer.walk(obj)
WalkFrom(s, o, keys, i) ==
    IF i > Len(keys) THEN s
    ELSE WalkFrom(DefineReactive(s, o, keys[i], Undef, TRUE, FALSE, FALSE),
                  o, keys, i + 1)

\* Observer.observeArray(items)
ObserveArrayFrom(s, items, i) ==
    IF i > Len(items) THEN s
    ELSE ObserveArrayFrom(Observe(s, items[i], FALSE).s, items, i + 1)

\* Object.defineProperty(obj, key, { enumerable: true, configurable: true,
\* get: reactiveGetter, set: reactiveSetter }): a cell is put on the property
DefineReactiveInstall(rc, o, key, cell) ==
    [rc.s EXCEPT !.heap[o].props =
       [k \in DOMAIN @ \cup {key} |->
          IF k # key THEN @[k]
          ELSE [(IF key \in DOMAIN @ THEN @[key] ELSE DataProp(Undef))
                  EXCEPT !.cells = Append(@, [cell EXCEPT !.childOb = rc.ret]),
                         !.enum = TRUE, !.conf = TRUE]]]

\* let childOb = !shallow && observe(val)
DefineReactiveChild(rv, o, key, cell) ==
    DefineReactiveInstall(IF cell.shallow THEN [s |-> rv.s, ret |-> 0]
                          ELSE Observe(rv.s, rv.ret, FALSE),
                          o, key, [cell EXCEPT !.val = rv.ret])

\* a defineReactive that fetches the value whatever accessor it finds
DefineReactiveValFetched(s, o, key, val, twoArgs, cell) ==
    DefineReactiveChild(IF twoArgs THEN ReadProp(s, o, key)
                        ELSE [s |-> s, ret |-> val],
                        o, key, cell)

\* if ((!getter || setter) && arguments.length === 2) val = obj[key]
DefineReactiveVal(s, o, key, val, twoArgs, cell) ==
    DefineReactiveChild(IF (~cell.getter \/ cell.setter) /\ twoArgs
                        THEN ReadProp(s, o, key)
                        ELSE [s |-> s, ret |-> IF twoArgs THEN Undef ELSE val],
                        o, key, cell)

\* a defineReactive that does not test property.configurable
DefineReactiveAnyway(s, o, key, val, twoArgs, hook, shallow) ==
    DefineReactiveVal(NewDep(s), o, key, val, twoArgs,
        [dep |-> Len(s.deps) + 1, childOb |-> 0,
         getter |-> HasOwn(s, o, key) /\ PropHasGet(s.heap[o].props[key]),
         val |-> Undef, shallow |-> shallow,
         setter |-> HasOwn(s, o, key) /\ PropHasSet(s.heap[o].props[key]),
         hook |-> hook])

\* defineReactive(obj, key, val, customSetter, shallow); twoArgs says that
\* only obj and key were passed, hook that a customSetter was passed
DefineReactive(s, o, key, val, twoArgs, hook, shallow) ==
    IF HasOwn(s, o, key) /\ ~s.heap[o].props[key].conf THEN NewDep(s)
    ELSE DefineReactiveVal(NewDep(s), o, key, val, twoArgs,
            [dep |-> Len(s.deps) + 1, childOb |-> 0,
             getter |-> HasOwn(s, o, key) /\ PropHasGet(s.heap[o].props[key]),
             val |-> Undef, shallow |-> shallow,
             setter |-> HasOwn(s, o, key) /\ PropHasSet(s.heap[o].props[key]),
             hook |-> hook])

(***************************************************************************)
(* Writes: the reactiveSetter, and obj[key] = val in general               *)
(***************************************************************************)
RECURSIVE SetLayer(_, _, _, _, _), WriteProp(_, _, _, _)

\* a write to the original descriptor: a data slot, a user setter, or a
\* getter without setter (the write is rejected)
SetBase(s, o, k, newVal) ==
    IF s.heap[o].props[k].slot[1] = "proxy"
    THEN WriteProp(s, s.heap[o].props[ProxySource(s.heap[o].props[k].slot)].slot[2],
                   k, newVal)
    ELSE IF ~s.heap[o].props[k].hasGet /\ ~s.heap[o].props[k].hasSet
    THEN [s EXCEPT !.heap[o].props[k].slot = newVal]
    ELSE IF s.heap[o].props[k].hasSet
    THEN Emit([s EXCEPT !.heap[o].props[k].slot = newVal], Ev("setter", o, k))
    ELSE Emit(s, Ev("typeerror", o, k))

\* childOb = ...; dep.notify()
SetterNotify(rc, o, k, i) ==
    DepNotify([rc.s EXCEPT !.heap[o].props[k].cells[i].childOb = rc.ret],
              rc.s.heap[o].props[k].cells[i].dep)

\* a setter that notifies before it observes the new value
SetterObserveLate(s, o, k, i, newVal) ==
    IF s.heap[o].props[k].cells[i].shallow
    THEN SetterNotify([s |-> s, ret |-> 0], o, k, i)
    ELSE [Observe(DepNotify(s, s.heap[o].props[k].cells[i].dep), newVal, FALSE).s
            EXCEPT !.heap[o].props[k].cells[i].childOb =
               Observe(DepNotify(s, s.heap[o].props[k].cells[i].dep), newVal, FALSE).ret]

\* childOb = !shallow && observe(newVal)
SetterObserve(s, o, k, i, newVal) ==
    SetterNotify(IF s.heap[o].props[k].cells[i].shallow THEN [s |-> s, ret |-> 0]
                 ELSE Observe(s, newVal, FALSE),
                 o, k, i)

\* if (customSetter) customSetter()
SetterHook(s, o, k, i) ==
    IF s.heap[o].props[k].cells[i].hook THEN Emit(s, Ev("hook", o, k)) ELSE s

\* a setter that hands the value to a delegate setter but never stores it
\* itself
SetterStoreNoVal(s, o, k, i, newVal) ==
    IF s.heap[o].props[k].cells[i].getter /\ ~s.heap[o].props[k].cells[i].setter
    THEN SetterHook(s, o, k, i)
    ELSE SetterObserve(IF s.heap[o].props[k].cells[i].setter
                       THEN SetLayer(SetterHook(s, o, k, i), o, k, i - 1, newVal)
                       ELSE SetterHook(s, o, k, i),
                       o, k, i, newVal)

\* a setter that does not return for a getter without a setter
SetterStoreNoReject(s, o, k, i, newVal) ==
    SetterObserve(IF s.heap[o].props[k].cells[i].setter
                  THEN SetLayer(SetterHook(s, o, k, i), o, k, i - 1, newVal)
                  ELSE [SetterHook(s, o, k, i) EXCEPT
                          !.heap[o].props[k].cells[i].val = newVal],
                  o, k, i, newVal)

\* the setter once the value is known to differ:
\* if (getter && !setter) return
\* if (setter) setter.call(obj, newVal) else val = newVal
SetterStore(s, o, k, i, newVal) ==
    IF s.heap[o].props[k].cells[i].getter /\ ~s.heap[o].props[k].cells[i].setter
    THEN SetterHook(s, o, k, i)
    ELSE SetterObserve(IF s.heap[o].props[k].cells[i].setter
                       THEN SetLayer(SetterHook(s, o, k, i), o, k, i - 1, newVal)
                       ELSE [SetterHook(s, o, k, i) EXCEPT
                               !.heap[o].props[k].cells[i].val = newVal],
                       o, k, i, newVal)

\* a comparison with === only
SetterCompareStrict(r, o, k, i, newVal) ==
    IF StrictEq(newVal, r.ret) THEN r.s
    ELSE SetterStore(r.s, o, k, i, newVal)

\* if (newVal === value || (newVal !== newVal && value !== value)) return
SetterCompare(r, o, k, i, newVal) ==
    IF StrictEq(newVal, r.ret) \/ (newVal = NaN /\ r.ret = NaN) THEN r.s
    ELSE SetterStore(r.s, o, k, i, newVal)

\* the reactiveSetter of cell i; layer 0 is the original descriptor
SetLayer(s, o, k, i, newVal) ==
    IF i = 0 THEN SetBase(s, o, k, newVal)
    ELSE SetterCompare(IF s.heap[o].props[k].cells[i].getter
                       THEN GetLayer(s, o, k, i - 1)
                       ELSE [s |-> s, ret |-> s.heap[o].props[k].cells[i].val],
                       o, k, i, newVal)

\* obj[key] = val on a record
WriteProp(s, o, k, v) ==
    IF HasOwn(s, o, k) THEN SetLayer(s, o, k, Len(s.heap[o].props[k].cells), v)
    ELSE IF ~s.heap[o].ext THEN Emit(s, Ev("typeerror", o, k))
    ELSE [s EXCEPT !.heap[o].props =
            [x \in DOMAIN @ \cup {k} |-> IF x = k THEN DataProp(v) ELSE @[x]]]

\* delete obj[key]
DeleteProp(s, o, k) ==
    IF HasOwn(s, o, k) /\ ~s.heap[o].props[k].conf THEN Emit(s, Ev("typeerror", o, k))
    ELSE [s EXCEPT !.heap[o].props = [x \in DOMAIN @ \ {k} |-> @[x]]]

(***************************************************************************)
(* The sequence primitives of Array.prototype, and their interceptor       *)
(* (observer/array.js).  A primitive yields the new elements, the returned *)
(* value and, for splice, the elements of the returned sequence.           *)
(***************************************************************************)
methodsToPatch == {"push", "pop", "shift", "unshift", "splice", "sort", "reverse"}

NewArray == <<"newarr", 0>>

Max(a, b) == IF a > b THEN a ELSE b

Min(a, b) == IF a < b THEN a ELSE b

\* ToInteger of an argument
ToInteger(v) == IF v[1] = "num" THEN v[2] ELSE 0

RECURSIVE Reverse(_)
Reverse(sq) == IF sq = <<>> THEN <<>> ELSE Reverse(Tail(sq)) \o <<Head(sq)>>

\* the default sort compares the elements as strings; the rank orders the
\* strings of the one-digit numbers, NaN, records and undefined (last)
SortRank(v) ==
    CASE v[1] = "num" -> IF v[2] < 0 THEN (0 - 10) - v[2] ELSE v[2]
      [] v[1] = "nan" -> 20
      [] v[1] = "ref" -> 30
      [] v[1] = "undef" -> 99
      [] OTHER -> 40

RECURSIVE InsertSorted(_, _)
InsertSorted(x, sq) ==
    IF sq = <<>> THEN <<x>>
    ELSE IF SortRank(x) < SortRank(Head(sq)) THEN <<x>> \o sq
    ELSE <<Head(sq)>> \o InsertSorted(x, Tail(sq))

\* a stable sort: the elements are inserted from the last to the first
RECURSIVE StableSort(_)
StableSort(sq) == IF sq = <<>> THEN <<>> ELSE InsertSorted(Head(sq), StableSort(Tail(sq)))

\* the start of a splice, from the relative start
SpliceStart(len, rel) == IF rel < 0 THEN Max(len + rel, 0) ELSE Min(rel, len)

\* the number of elements a splice removes
SpliceCount(len, start, args) ==
    IF Len(args) = 0 THEN 0
    ELSE IF Len(args) = 1 THEN len - start
    ELSE Min(Max(ToInteger(args[2]), 0), len - start)

SpliceResult(elems, start, dc, items) ==
    [elems |-> SubSeq(elems, 1, start) \o items \o SubSeq(elems, start + dc + 1, Len(elems)),
     ret |-> NewArray,
     removed |-> SubSeq(elems, start + 1, start + dc)]

SpliceFrom(elems, args, start) ==
    SpliceResult(elems, start, SpliceCount(Len(elems), start, args),
                 IF Len(args) > 2 THEN SubSeq(args, 3, Len(args)) ELSE <<>>)

NativeSplice(elems, args) ==
    SpliceFrom(elems, args,
               SpliceStart(Len(elems), IF Len(args) >= 1 THEN ToInteger(args[1]) ELSE 0))

\* original.apply(this, args), `a` being this
Native(elems, a, method, args) ==
    CASE method = "push" ->
            [elems |-> elems \o args, ret |-> Num(Len(elems) + Len(args)),
             removed |-> <<>>]
      [] method = "pop" ->
            IF elems = <<>> THEN [elems |-> elems, ret |-> Undef, removed |-> <<>>]
            ELSE [elems |-> SubSeq(elems, 1, Len(elems) - 1),
                  ret |-> elems[Len(elems)], removed |-> <<>>]
      [] method = "shift" ->
            IF elems = <<>> THEN [elems |-> elems, ret |-> Undef, removed |-> <<>>]
            ELSE [elems |-> Tail(elems), ret |-> Head(elems), removed |-> <<>>]
      [] method = "unshift" ->
            [elems |-> args \o elems, ret |-> Num(Len(elems) + Len(args)),
             removed |-> <<>>]
      [] method = "splice" -> NativeSplice(elems, args)
      [] method = "sort" ->
            [elems |-> StableSort(elems), ret |-> Ref(a), removed |-> <<>>]
      [] method = "reverse" ->
            [elems |-> Reverse(elems), ret |-> Ref(a), removed |-> <<>>]

\* an interceptor that takes the arguments of push and unshift only
InsertedNoSplice(method, args) ==
    IF method \in {"push", "unshift"} THEN [items |-> args, has |-> TRUE]
    ELSE [items |-> <<>>, has |-> FALSE]

\* the elements the interceptor takes as inserted; has is the test
\* `if (inserted)`
Inserted(method, args) ==
    CASE method \in {"push", "unshift"} -> [items |-> args, has |-> TRUE]
      [] method = "splice" ->
            [items |-> IF Len(args) > 2 THEN SubSeq(args, 3, Len(args)) ELSE <<>>,
             has |-> TRUE]
      [] OTHER -> [items |-> <<>>, has |-> FALSE]

\* ob.dep.notify(); return result
MutatorNotify(s, a, result) ==
    [s |-> DepNotify(s, s.obs[s.heap[a].ob].dep),
     ret |-> result.ret, removed |-> result.removed]

\* an interceptor that observes nothing
MutatorInsertedNone(s, inserted) == s

\* if (inserted) ob.observeArray(inserted)
MutatorInserted(s, inserted) ==
    IF inserted.has THEN ObserveArrayFrom(s, inserted.items, 1) ELSE s

\* an interceptor that returns nothing
MutatorNoResult(s, a, method, args) ==
    [s |-> DepNotify(
             MutatorInserted(
                [s EXCEPT !.heap[a].elems = Native(s.heap[a].elems, a, method, args).elems],
                Inserted(method, args)),
             s.obs[s.heap[a].ob].dep),
     ret |-> Undef, removed |-> <<>>]

\* an interceptor that notifies once for the call and once more for every
\* argument
MutatorNotifyPerArg(s, a, method, args) ==
    IF args = <<>>
    THEN MutatorNotify(
            MutatorInserted(
                [s EXCEPT !.heap[a].elems = Native(s.heap[a].elems, a, method, args).elems],
                Inserted(method, args)),
            a, Native(s.heap[a].elems, a, method, args))
    ELSE MutatorNotify(
            DepNotify(
                MutatorInserted(
                    [s EXCEPT !.heap[a].elems = Native(s.heap[a].elems, a, method, args).elems],
                    Inserted(method, args)),
                s.obs[s.heap[a].ob].dep),
            a, Native(s.heap[a].elems, a, method, args))

\* an interceptor that notifies before it observes what was inserted
MutatorNotifyEarly(s, a, method, args) ==
    [s |-> MutatorInserted(
             DepNotify(
                [s EXCEPT !.heap[a].elems = Native(s.heap[a].elems, a, method, args).elems],
                s.obs[s.heap[a].ob].dep),
             Inserted(method, args)),
     ret |-> Native(s.heap[a].elems, a, method, args).ret,
     removed |-> Native(s.heap[a].elems, a, method, args).removed]

\* mutator(...args) on the observed sequence a
Mutator(s, a, method, args) ==
    MutatorNotify(
        MutatorInserted(
            [s EXCEPT !.heap[a].elems = Native(s.heap[a].elems, a, method, args).elems],
            Inserted(method, args)),
        a, Native(s.heap[a].elems, a, method, args))

\* the primitive called on a sequence that is not observed
CallNative(s, a, result) ==
    [s |-> [s EXCEPT !.heap[a].elems = result.elems],
     ret |-> result.ret, removed |-> result.removed]

\* target[method](...args): the interceptor when the sequence is observed
\* (its prototype was redirected), the primitive otherwise
CallArrayMethod(s, a, method, args) ==
    IF s.heap[a].ob # 0 THEN Mutator(s, a, method, args)
    ELSE CallNative(s, a, Native(s.heap[a].elems, a, method, args))

(***************************************************************************)
(* set and del (observer/index.js)                                         *)
(***************************************************************************)
\* the keys that are sequence indices, in order: IndexKeys[i] is index i - 1
IndexKeys == <<"0", "1", "2", "3">>

\* isValidArrayIndex(key)
IsValidArrayIndex(k) == Contains(IndexKeys, k)

IndexOf(k) == (CHOOSE i \in DOMAIN IndexKeys : IndexKeys[i] = k) - 1

\* target.length = n for n >= target.length: the new places are empty
PadTo(elems, n) == elems \o [i \in 1..(n - Len(elems)) |-> Undef]

\* isUndef(target) || isPrimitive(target)
IsUndefOrPrimitive(v) == ~IsRef(v)

\* a set that splices without growing the sequence first
SetIndexNoGrow(s, o, key, val) ==
    [s |-> CallArrayMethod(s, o, "splice", <<Num(IndexOf(key)), Num(1), val>>).s,
     ret |-> val]

\* target.length = Math.max(target.length, key); target.splice(key, 1, val)
SetIndex(s, o, key, val) ==
    [s |-> CallArrayMethod(
             [s EXCEPT !.heap[o].elems = PadTo(@, Max(Len(@), IndexOf(key)))],
             o, "splice", <<Num(IndexOf(key)), Num(1), val>>).s,
     ret |-> val]

\* ob.dep.notify(); return val
SetNotify(s, ob, val) == [s |-> DepNotify(s, s.obs[ob].dep), ret |-> val]

\* a set that assigns to the root target it warns about
SetOnRootAssigns(s, o, key, val) ==
    IF s.heap[o].kind = "arr" /\ IsValidArrayIndex(key) THEN SetIndex(s, o, key, val)
    ELSE IF KeyIn(s, o, key) /\ key \notin ProtoKeys
    THEN [s |-> WriteProp(s, o, key, val), ret |-> val]
    ELSE IF s.heap[o].isVue \/ (s.heap[o].ob # 0 /\ s.obs[s.heap[o].ob].vmCount # 0)
    THEN [s |-> WriteProp(Emit(s, Ev("warn", o, 0)), o, key, val), ret |-> val]
    ELSE IF s.heap[o].ob = 0 THEN [s |-> WriteProp(s, o, key, val), ret |-> val]
    ELSE SetNotify(DefineReactive(s, s.obs[s.heap[o].ob].value, key, val,
                                  FALSE, FALSE, FALSE),
                   s.heap[o].ob, val)

\* a set that returns nothing when it rejects a root target
SetOnRootUndef(s, o, key, val) ==
    IF s.heap[o].kind = "arr" /\ IsValidArrayIndex(key) THEN SetIndex(s, o, key, val)
    ELSE IF KeyIn(s, o, key) /\ key \notin ProtoKeys
    THEN [s |-> WriteProp(s, o, key, val), ret |-> val]
    ELSE IF s.heap[o].isVue \/ (s.heap[o].ob # 0 /\ s.obs[s.heap[o].ob].vmCount # 0)
    THEN [s |-> Emit(s, Ev("warn", o, 0)), ret |-> Undef]
    ELSE IF s.heap[o].ob = 0 THEN [s |-> WriteProp(s, o, key, val), ret |-> val]
    ELSE SetNotify(DefineReactive(s, s.obs[s.heap[o].ob].value, key, val,
                                  FALSE, FALSE, FALSE),
                   s.heap[o].ob, val)

\* a set that makes a cell on a target without a node
SetOnUnobservedCell(s, o, key, val) ==
    IF s.heap[o].kind = "arr" /\ IsValidArrayIndex(key) THEN SetIndex(s, o, key, val)
    ELSE IF KeyIn(s, o, key) /\ key \notin ProtoKeys
    THEN [s |-> WriteProp(s, o, key, val), ret |-> val]
    ELSE IF s.heap[o].isVue \/ (s.heap[o].ob # 0 /\ s.obs[s.heap[o].ob].vmCount # 0)
    THEN [s |-> Emit(s, Ev("warn", o, 0)), ret |-> val]
    ELSE IF s.heap[o].ob = 0
    THEN [s |-> DefineReactive(s, o, key, val, FALSE, FALSE, FALSE), ret |-> val]
    ELSE SetNotify(DefineReactive(s, s.obs[s.heap[o].ob].value, key, val,
                                  FALSE, FALSE, FALSE),
                   s.heap[o].ob, val)

\* set on a composite target
SetOn(s, o, key, val) ==
    IF s.heap[o].kind = "arr" /\ IsValidArrayIndex(key) THEN SetIndex(s, o, key, val)
    ELSE IF KeyIn(s, o, key) /\ key \notin ProtoKeys
    THEN [s |-> WriteProp(s, o, key, val), ret |-> val]
    ELSE IF s.heap[o].isVue \/ (s.heap[o].ob # 0 /\ s.obs[s.heap[o].ob].vmCount # 0)
    THEN [s |-> Emit(s, Ev("warn", o, 0)), ret |-> val]
    ELSE IF s.heap[o].ob = 0 THEN [s |-> WriteProp(s, o, key, val), ret |-> val]
    ELSE SetNotify(DefineReactive(s, s.obs[s.heap[o].ob].value, key, val,
                                  FALSE, FALSE, FALSE),
                   s.heap[o].ob, val)

\* set(target, key, val): `key in target` throws for a target that is not a
\* composite, after the warning
Set(s, target, key, val) ==
    IF IsUndefOrPrimitive(target) THEN [s |-> Emit(s, Ev("warn", 0, 0)), ret |-> Threw]
    ELSE SetOn(s, target[2], key, val)

\* delete target[key]; if (!ob) return; ob.dep.notify()
DelOwn(s, o, key) ==
    IF ~s.heap[o].props[key].conf
    THEN [s |-> DeleteProp(s, o, key), ret |-> Threw]
    ELSE IF s.heap[o].ob = 0 THEN [s |-> DeleteProp(s, o, key), ret |-> Undef]
    ELSE [s |-> DepNotify(DeleteProp(s, o, key), s.obs[s.heap[o].ob].dep),
          ret |-> Undef]

\* a del that notifies whether or not the key was there
DelOnAlwaysNotify(s, o, key) ==
    IF s.heap[o].kind = "arr" /\ IsValidArrayIndex(key)
    THEN [s |-> CallArrayMethod(s, o, "splice", <<Num(IndexOf(key)), Num(1)>>).s,
          ret |-> Undef]
    ELSE IF s.heap[o].isVue \/ (s.heap[o].ob # 0 /\ s.obs[s.heap[o].ob].vmCount # 0)
    THEN [s |-> Emit(s, Ev("warn", o, 0)), ret |-> Undef]
    ELSE IF ~HasOwn(s, o, key) /\ s.heap[o].ob # 0
    THEN [s |-> DepNotify(s, s.obs[s.heap[o].ob].dep), ret |-> Undef]
    ELSE IF ~HasOwn(s, o, key) THEN [s |-> s, ret |-> Undef]
    ELSE DelOwn(s, o, key)

\* del on a composite target
DelOn(s, o, key) ==
    IF s.heap[o].kind = "arr" /\ IsValidArrayIndex(key)
    THEN [s |-> CallArrayMethod(s, o, "splice", <<Num(IndexOf(key)), Num(1)>>).s,
          ret |-> Undef]
    ELSE IF s.heap[o].isVue \/ (s.heap[o].ob # 0 /\ s.obs[s.heap[o].ob].vmCount # 0)
    THEN [s |-> Emit(s, Ev("warn", o, 0)), ret |-> Undef]
    ELSE IF ~HasOwn(s, o, key) THEN [s |-> s, ret |-> Undef]
    ELSE DelOwn(s, o, key)

\* del(target, key): target.__ob__ throws for undefined and null; a
\* primitive has no own key
Del(s, target, key) ==
    IF target \in {Undef, Null} THEN [s |-> Emit(s, Ev("warn", 0, 0)), ret |-> Threw]
    ELSE IF IsUndefOrPrimitive(target) THEN [s |-> Emit(s, Ev("warn", 0, 0)), ret |-> Undef]
    ELSE DelOn(s, target[2], key)

(***************************************************************************)
(* getData, initData and proxy (instance/state.js).  A data function is an *)
(* evaluator; the instances of the model declare no props and no methods.  *)
(***************************************************************************)
\* {}: the new record is Len(s.heap)
NewObject(s) == [s EXCEPT !.heap = Append(@, Rec(NoProps))]

\* the keys of the model that start with $ or _
IsReserved(key) == key \in {"_data"}

\* proxy(target, sourceKey, key)
Proxy(s, target, sourceKey, key) ==
    [s EXCEPT !.heap[target].props =
        [x \in DOMAIN @ \cup {key} |-> IF x = key THEN ProxyProp(sourceKey) ELSE @[x]]]

\* the catch and finally of getData: handleError(e, vm, 'data()'),
\* return {}, and popTarget() either way
GetDataFinish(r, vm) ==
    IF r.ret = Threw
    THEN [s |-> PopTarget(NewObject(Emit(r.s, Ev("dataerror", vm, 0)))),
          ret |-> Ref(Len(r.s.heap) + 1)]
    ELSE [s |-> PopTarget(r.s), ret |-> r.ret]

\* a getData that leaves the pointer alone when the data function throws
GetDataNoFinally(s, data, vm) ==
    IF Evaluate(PushTarget(s, 0), data).ret = Threw
    THEN [s |-> NewObject(Emit(Evaluate(PushTarget(s, 0), data).s, Ev("dataerror", vm, 0))),
          ret |-> Ref(Len(s.heap) + 1)]
    ELSE GetDataFinish(Evaluate(PushTarget(s, 0), data), vm)

\* a getData that calls the data function under the target it finds
GetDataKeepTarget(s, data, vm) ==
    GetDataFinish(Evaluate(PushTarget(s, Target(s)), data), vm)

\* getData(data, vm): the data function is called with no target
GetData(s, data, vm) == GetDataFinish(Evaluate(PushTarget(s, 0), data), vm)

\* the body of the while (i--) loop of initData
InitDataKey(s, vm, key) == IF IsReserved(key) THEN s ELSE Proxy(s, vm, "_data", key)

RECURSIVE InitDataKeys(_, _, _, _)
InitDataKeys(s, vm, keys, i) ==
    IF i = 0 THEN s
    ELSE InitDataKeys(InitDataKey(s, vm, keys[i]), vm, keys, i - 1)

\* the keys of data are proxied and data is observed as root data
InitDataObserve(s, vm, data) ==
    Observe(InitDataKeys(s, vm, ObjectKeys(s, data[2]), Len(ObjectKeys(s, data[2]))),
            data, TRUE).s

\* if (!isPlainObject(data)) { data = {}; warn(...) }
InitDataPlain(s, vm, data) ==
    IF IsPlainObject(s, data) THEN InitDataObserve(s, vm, data)
    ELSE InitDataObserve(Emit(NewObject(s), Ev("warn", vm, 0)), vm, Ref(Len(s.heap) + 1))

\* data = vm._data = getData(data, vm)
InitDataStore(r, vm) == InitDataPlain(WriteProp(r.s, vm, "_data", r.ret), vm, r.ret)

\* initData(vm), vm.$options.data being the data function `data`
InitData(s, vm, data) == InitDataStore(GetData(s, data, vm), vm)

\* initState(vm) for options with no props, methods, computed or watch:
\* if (opts.data) initData(vm) else observe(vm._data = {}, true)
InitState(s, vm, hasData, data) ==
    IF hasData THEN InitData(s, vm, data)
    ELSE Observe(WriteProp(NewObject(s), vm, "_data", Ref(Len(s.heap) + 1)),
                 Ref(Len(s.heap) + 1), TRUE).s

\* toggleObserving(value)
ToggleObserving(s, value) == [s EXCEPT !.shouldObserve = value]

\* if (!(key in vm)) proxy(vm, '_props', key)
InitPropsProxy(s, vm, key) == IF KeyIn(s, vm, key) THEN s ELSE Proxy(s, vm, "_props", key)

\* one turn of the for-in loop of initProps once validateProp has returned
\* `value`: defineReactive(props, key, value, customSetter)
InitPropsKey(s, vm, props, key, value) ==
    InitPropsProxy(DefineReactive(s, props, key, value, FALSE, TRUE, FALSE), vm, key)

\* the loop over propsOptions and the toggleObserving(true) after it.
\* opts[i] is <<key, what validateProp returns for it>>; an exception of
\* validateProp leaves initProps there and then
RECURSIVE InitPropsLoop(_, _, _, _, _)
InitPropsLoop(s, vm, props, opts, i) ==
    IF i > Len(opts) THEN [s |-> ToggleObserving(s, TRUE), ret |-> Undef]
    ELSE IF opts[i][2] = Threw THEN [s |-> s, ret |-> Threw]
    ELSE InitPropsLoop(InitPropsKey(s, vm, props, opts[i][1], opts[i][2]),
                       vm, props, opts, i + 1)

\* if (!isRoot) toggleObserving(false); props is the record just made
InitPropsStart(s, vm, isRoot, opts) ==
    InitPropsLoop(IF isRoot THEN s ELSE ToggleObserving(s, FALSE),
                  vm, Len(s.heap), opts, 1)

\* initProps(vm, propsOptions), isRoot = !vm.$parent
InitProps(s, vm, isRoot, opts) ==
    InitPropsStart(WriteProp(NewObject(s), vm, "_props", Ref(Len(s.heap) + 1)),
                   vm, isRoot, opts)

(***************************************************************************)
(* Vue.use (global-api/use.js).  A constructor and a function plugin are   *)
(* heap objects of kind "fn"; an install function is the value             *)
(* <<"fn", c>>: c = 1 returns, c = 2 throws, c = 3 first uses the plugin   *)
(* plugin at heap address 3 on the same constructor.  So that its calls can be counted,  *)
(* an install function adds one to the key PluginKey of the constructor.   *)
(***************************************************************************)
\* the key of the constructor where the plugin p counts its calls
PluginKey(p) == KeyOrder[p - 2]

InstallCount(s, ctor, p) ==
    IF HasOwn(s, ctor, PluginKey(p)) THEN s.heap[ctor].props[PluginKey(p)].slot[2] ELSE 0

\* the body every install function of the model starts with
CountInstall(s, ctor, p) ==
    WriteProp(Emit(s, Ev("install", p, ctor)), ctor, PluginKey(p),
              Num(InstallCount(s, ctor, p) + 1))

\* this._installedPlugins || (this._installedPlugins = [])
InstalledPlugins(s, ctor) ==
    IF HasOwn(s, ctor, "_installedPlugins") THEN s
    ELSE WriteProp([s EXCEPT !.heap = Append(@, Arr(<<>>))], ctor,
                   "_installedPlugins", Ref(Len(s.heap) + 1))

\* the list of the constructor
InstalledList(s, ctor) == s.heap[ctor].props["_installedPlugins"].slot[2]

RECURSIVE Use(_, _, _)

InstallAfter(r, ctor, p) == [s |-> CountInstall(r.s, ctor, p), ret |-> r.ret]

\* the install function <<"fn", c>> of plugin p is applied
ApplyInstall(s, ctor, p, c) ==
    CASE c = 2 -> [s |-> CountInstall(s, ctor, p), ret |-> Threw]
      [] c = 3 -> InstallAfter(Use(s, ctor, Ref(3)), ctor, p)
      [] OTHER -> [s |-> CountInstall(s, ctor, p), ret |-> Undef]

\* plugin.install.apply(plugin, args), else plugin.apply(null, args)
UseApply(s, ctor, p) ==
    IF HasOwn(s, p, "install") /\ s.heap[p].props["install"].slot[1] = "fn"
    THEN ApplyInstall(s, ctor, p, s.heap[p].props["install"].slot[2])
    ELSE IF s.heap[p].kind = "fn" THEN ApplyInstall(s, ctor, p, 1)
    ELSE [s |-> s, ret |-> Undef]

\* installedPlugins.push(plugin); return this - unless the plugin threw
UsePush(r, ctor, plugin) ==
    IF r.ret = Threw THEN r
    ELSE [s |-> [r.s EXCEPT !.heap[InstalledList(r.s, ctor)].elems = Append(@, plugin)],
          ret |-> Ref(ctor)]

\* a Vue.use that does not look the plugin up
UseInstalledAgain(s, ctor, plugin) == UsePush(UseApply(s, ctor, plugin[2]), ctor, plugin)

\* if (installedPlugins.indexOf(plugin) > -1) return this
UseInstalled(s, ctor, plugin) ==
    IF Contains(s.heap[InstalledList(s, ctor)].elems, plugin)
    THEN [s |-> s, ret |-> Ref(ctor)]
    ELSE UsePush(UseApply(s, ctor, plugin[2]), ctor, plugin)

\* ctor.use(plugin), plugin an object or a function
Use(s, ctor, plugin) == UseInstalled(InstalledPlugins(s, ctor), ctor, plugin)

(***************************************************************************)
(* The operations as actions.  `last` records the operation just run: its  *)
(* name, its arguments, what it returned and the events it caused; `pre`   *)
(* is the state it ran in.                                                 *)
(***************************************************************************)
NoLast ==
    [n |-> 0, o |-> 0, v |-> Undef, log |-> <<>>, k |-> "", ret |-> Undef,
     flag |-> FALSE, args |-> <<>>, removed |-> <<>>, op |-> "init"]

\* the bounds of the model
MaxDeps == 6

MaxVmCount == 1

MaxWatchers == 2

MaxLen == 2

MaxInstalls == 2

\* an operation ends in state s
DoneState(s, l) == Commit(s) /\ last' = [l EXCEPT !.log = s.log]

\* an operation ends in state r.s and returns the value r.ret
DoneRet(r, l) == Commit(r.s) /\ last' = [l EXCEPT !.ret = r.ret, !.log = r.s.log]

\* observe ends in state r.s and returns the node r.ret
DoneNode(r, l) == Commit(r.s) /\ last' = [l EXCEPT !.n = r.ret, !.log = r.s.log]

\* a sequence operation ends
DoneArray(r, l) ==
    /\ Commit(r.s)
    /\ last' = [l EXCEPT !.ret = r.ret, !.removed = r.removed, !.log = r.s.log]

\* a watcher was made: it is the last of s.ws
DoneWatcher(s, l) == Commit(s) /\ last' = [l EXCEPT !.o = Len(s.ws), !.log = s.log]

\* toggleObserving(value)
ActToggle(b) ==
    /\ b # shouldObserve
    /\ DoneState(ToggleObserving(Cur, b),
                 [NoLast EXCEPT !.op = "toggle", !.flag = b])

\* observe(value, asRootData)
ActObserve(v, root) ==
    /\ Len(deps) < MaxDeps
    /\ root /\ IsRef(v) /\ heap[v[2]].ob # 0 => obs[heap[v[2]].ob].vmCount < MaxVmCount
    /\ DoneNode(Observe(Cur, v, root),
                [NoLast EXCEPT !.op = "observe", !.v = v, !.flag = root,
                               !.o = IF IsRef(v) THEN v[2] ELSE 0])

\* defineReactive(obj, key, val, customSetter, shallow) on a key obj does not
\* have yet, as initProps calls it
ActDefineReactive(o, k, v, hook, shallow) ==
    /\ heap[o].kind = "rec"
    /\ k \notin DOMAIN heap[o].props
    /\ Len(deps) < MaxDeps
    /\ DoneState(DefineReactive(Cur, o, k, v, FALSE, hook, shallow),
                 [NoLast EXCEPT !.op = "defineReactive", !.o = o, !.k = k,
                                !.v = v, !.flag = hook])

\* obj[key] = val, outside any evaluation
ActWrite(o, k, v) ==
    /\ heap[o].kind = "rec"
    /\ Len(deps) < MaxDeps
    /\ DoneState(WriteProp(Cur, o, k, v),
                 [NoLast EXCEPT !.op = "write", !.o = o, !.k = k, !.v = v])

\* obj[key], outside any evaluation
ActRead(o, k) ==
    /\ heap[o].kind = "rec"
    /\ DoneRet(ReadProp(Cur, o, k), [NoLast EXCEPT !.op = "read", !.o = o, !.k = k])

\* seq[method](...args)
ActArray(a, method, args) ==
    /\ heap[a].kind = "arr"
    /\ Len(deps) < MaxDeps
    /\ Len(Native(heap[a].elems, a, method, args).elems) <= MaxLen
    /\ DoneArray(CallArrayMethod(Cur, a, method, args),
                 [NoLast EXCEPT !.op = method, !.o = a, !.args = args])

\* set(target, key, val)
ActSet(target, k, v) ==
    /\ Len(deps) < MaxDeps
    /\ DoneRet(Set(Cur, target, k, v),
               [NoLast EXCEPT !.op = "set", !.k = k, !.v = v,
                              !.o = IF IsRef(target) THEN target[2] ELSE 0,
                              !.args = <<target>>])

\* del(target, key)
ActDel(target, k) ==
    DoneRet(Del(Cur, target, k),
            [NoLast EXCEPT !.op = "del", !.k = k,
                           !.o = IF IsRef(target) THEN target[2] ELSE 0,
                           !.args = <<target>>])

\* new Watcher(vm, evaluator, cb, {lazy, user})
ActWatch(ev, lazy, user) ==
    /\ Len(ws) < MaxWatchers
    /\ DoneWatcher(NewWatcher(Cur, ev, lazy, user),
                   [NoLast EXCEPT !.op = "watch", !.flag = lazy])

\* vm.$watch(evaluator, cb, {immediate}); cbFails: the callback throws
ActVmWatch(ev, immediate, cbFails) ==
    /\ Len(ws) < MaxWatchers
    /\ DoneRet(Watch(Cur, ev, immediate, cbFails),
               [NoLast EXCEPT !.op = "$watch", !.o = Len(ws) + 1,
                              !.flag = immediate, !.args = <<Bool(cbFails)>>])

\* the unwatch handle of watcher w is called
ActUnwatch(w) ==
    /\ w \in DOMAIN ws
    /\ DoneState(UnwatchFn(Cur, w), [NoLast EXCEPT !.op = "unwatch", !.o = w])

\* initState of the new instance vm whose data option is the n-th function
\* of fns
ActInitData(vm, fns, n) ==
    /\ ~HasOwn(Cur, vm, "_data")
    /\ Len(deps) < MaxDeps
    /\ DoneState(InitData(Cur, vm, fns[n]),
                 [NoLast EXCEPT !.op = "initData", !.o = vm, !.n = n])

\* initProps of the new instance vm whose props are the n-th of optss
ActInitProps(vm, isRoot, optss, n) ==
    /\ ~HasOwn(Cur, vm, "_props")
    /\ Len(deps) < MaxDeps
    /\ DoneRet(InitProps(Cur, vm, isRoot, optss[n]),
               [NoLast EXCEPT !.op = "initProps", !.o = vm, !.flag = isRoot, !.n = n])

\* initState of the new instance vm whose data option is the n-th function
\* of fns, or is absent when n is 0
ActInitState(vm, fns, n) ==
    /\ ~HasOwn(Cur, vm, "_data")
    /\ Len(deps) < MaxDeps
    /\ DoneState(InitState(Cur, vm, n # 0, fns[IF n = 0 THEN 1 ELSE n]),
                 [NoLast EXCEPT !.op = "initState", !.o = vm, !.n = n])

\* ctor.use(plugin)
ActUse(ctor, plugin) ==
    /\ InstallCount(Cur, ctor, plugin[2]) < MaxInstalls
    /\ DoneRet(Use(Cur, ctor, plugin),
               [NoLast EXCEPT !.op = "use", !.o = ctor, !.v = plugin])

\* vm[key] for the computed property of lazy watcher w, outside any evaluation
ActReadComputed(w) ==
    /\ w \in DOMAIN ws
    /\ ws[w].lazy
    /\ DoneRet(ComputedGetter(Cur, w), [NoLast EXCEPT !.op = "computed", !.o = w])

\* a state record with the heap h where nothing is observed or watched
Blank(h) ==
    [heap |-> h, obs |-> <<>>, deps |-> <<>>, ws |-> <<>>,
     targetStack |-> <<>>, shouldObserve |-> TRUE, log |-> <<>>]

\* the initial state is the state s
InitFrom(s) ==
    /\ heap = s.heap
    /\ obs = s.obs
    /\ deps = s.deps
    /\ ws = s.ws
    /\ targetStack = s.targetStack
    /\ shouldObserve = s.shouldObserve
    /\ last = NoLast
    /\ pre = Snapshot(s)

\* the state an operation ran in, as a state record
PreState ==
    [heap |-> pre.heap, obs |-> pre.obs, deps |-> pre.deps, ws |-> pre.ws,
     targetStack |-> <<>>, shouldObserve |-> pre.shouldObserve, log |-> <<>>]

\* obj[key] read in s outside any evaluation
ValueOf(s, o, k) == ReadProp([s EXCEPT !.targetStack = <<>>], o, k).ret

(***************************************************************************)
(* Observation: a record that holds a number and a sequence, the sequence  *)
(* holding a record; a further record to be inserted; a frozen record.     *)
(***************************************************************************)
ObserveHeap ==
    <<Rec([k \in {"a", "b"} |-> IF k = "a" THEN DataProp(Num(1)) ELSE DataProp(Ref(2))]),
      Arr(<<Ref(3)>>),
      Rec(NoProps),
      [Rec(NoProps) EXCEPT !.ext = FALSE]>>

ObserveVals == {Num(1), Ref(3)}

Init == InitFrom(Blank(ObserveHeap))

Next ==
    \/ \E b \in BOOLEAN : ActToggle(b)
    \/ \E o \in DOMAIN heap : ActObserve(Ref(o), FALSE)
    \/ \E v \in ObserveVals : ActWrite(1, "a", v)
    \/ \E v \in ObserveVals : ActSet(Ref(3), "k", v)
    \/ ActDel(Ref(3), "k")
    \/ \E v \in ObserveVals : ActArray(2, "push", <<v>>)
    \/ ActArray(2, "pop", <<>>)

Spec == Init /\ [][Next]_vars

\* a composite that observe accepts when observation is enabled
Observable(o) == heap[o].kind \in {"rec", "arr"} /\ heap[o].ext /\ ~heap[o].isVue

\* every composite carries at most one Observed Node, which is never replaced
OneNodePerComposite ==
    /\ \A o \in DOMAIN heap : pre.heap[o].ob # 0 => heap[o].ob = pre.heap[o].ob
    /\ \A o \in DOMAIN heap : heap[o].ob # 0 => obs[heap[o].ob].value = o
    /\ \A n1, n2 \in DOMAIN obs : obs[n1].value = obs[n2].value => n1 = n2

\* C1 as stated: every call to observe(x) on an observable composite x,
\* whatever was called in between, returns the one Observed Node of x.
C1_EveryCallReturnsTheNode ==
    /\ OneNodePerComposite
    /\ last.op = "observe" /\ Observable(last.o) =>
          last.n # 0 /\ last.n = heap[last.o].ob

\* C1, amended: every call to observe(x) on an observable composite x that is
\* made while observation is enabled, or once x carries an Observed Node,
\* returns the same Observed Node whatever writes, set/del calls, sequence
\* operations or toggleObserving calls came in between; x never carries more
\* than one node (x.__ob__ is that node and node.value is x).  A call made
\* while observation is disabled on an x without a node returns nothing.
C1_ObserveIdempotent ==
    /\ OneNodePerComposite
    /\ last.op = "observe" /\ Observable(last.o) =>
          /\ pre.heap[last.o].ob # 0 => last.n = pre.heap[last.o].ob
          /\ pre.shouldObserve \/ pre.heap[last.o].ob # 0 =>
                last.n # 0 /\ last.n = heap[last.o].ob
          /\ ~pre.shouldObserve /\ pre.heap[last.o].ob = 0 =>
                last.n = 0 /\ heap[last.o].ob = 0

\* a repeated observe(x) after observation was disabled returns the node of x
C1_Witness ==
    /\ last.op = "observe"
    /\ Observable(last.o)
    /\ pre.heap[last.o].ob # 0
    /\ ~shouldObserve
    /\ last.n = pre.heap[last.o].ob

(***************************************************************************)
(* Reactive Cells: a record with a data property, an accessor pair and a   *)
(* getter-only accessor is observed; a second record receives a cell with  *)
(* a write hook, as initProps defines them.                                *)
(***************************************************************************)
CellHeap ==
    <<Rec([k \in {"a", "b", "c"} |->
             CASE k = "a" -> DataProp(Num(1))
               [] k = "b" -> AccessorProp(TRUE, TRUE, NaN)
               [] k = "c" -> AccessorProp(TRUE, FALSE, Num(1))]),
      Rec(NoProps)>>

CellVals == {Num(1), NaN, Ref(2)}

InitCell == InitFrom(Blank(CellHeap))

NextCell ==
    \/ ActObserve(Ref(1), FALSE)
    \/ \E v \in CellVals, shallow \in BOOLEAN : ActDefineReactive(2, "a", v, TRUE, shallow)
    \/ \E o \in DOMAIN heap, k \in {"a", "b", "c"}, v \in CellVals :
          k \in DOMAIN heap[o].props /\ ActWrite(o, k, v)
    \/ \E o \in DOMAIN heap, k \in {"a", "b", "c"} : ActRead(o, k)

SpecCell == InitCell /\ [][NextCell]_vars

\* before the last operation, o.k was a Reactive Cell
WasCell(o, k) ==
    /\ o \in DOMAIN pre.heap
    /\ k \in DOMAIN pre.heap[o].props
    /\ pre.heap[o].props[k].cells # <<>>

\* the top cell of the property o.k before the last operation
PreTopCell(o, k) ==
    pre.heap[o].props[k].cells[Len(pre.heap[o].props[k].cells)]

\* that cell wraps a getter without a setter
WasGetterOnly(o, k) == PreTopCell(o, k).getter /\ ~PreTopCell(o, k).setter

IsHeld(v, value) == StrictEq(v, value) \/ (v = NaN /\ value = NaN)

\* the last operation wrote to a cell the value the cell already had
SameValueWrite ==
    /\ last.op = "write"
    /\ WasCell(last.o, last.k)
    /\ IsHeld(last.v, ValueOf(PreState, last.o, last.k))

\* C3: a write of the value a cell already holds (reference-identical, or
\* NaN over NaN) is a no-op: no dep is notified, neither the write hook nor a
\* delegate setter is called, and the stored value, the cached child node
\* and everything else stay as they were.
C3_SameValueNoOp ==
    SameValueWrite =>
        /\ last.log = <<>>
        /\ Snapshot(Cur) = pre

\* NaN was written over NaN in a cell that has a delegate setter
C3_Witness ==
    /\ SameValueWrite
    /\ last.v = NaN
    /\ PreTopCell(last.o, last.k).setter
    /\ last.log = <<>>

(***************************************************************************)
(* Watchers: the data record of an instance, observed as initData leaves   *)
(* it, with a watcher on `ok ? a : b` and a watcher on `b`.                *)
(***************************************************************************)
WatchHeap ==
    <<Rec([k \in {"ok", "a", "b"} |-> DataProp(Num(1))])>>

WatchVals == {Num(0), Num(1), Num(2)}

WatchEvs == {EvBranch(1, "ok", "a", "b"), EvPath(1, <<"b">>)}

InitWatch == InitFrom(Observe(Blank(WatchHeap), Ref(1), TRUE).s)

NextWatch ==
    \/ \E ev \in WatchEvs : ActWatch(ev, FALSE, TRUE)
    \/ \E k \in {"ok", "a", "b"}, v \in WatchVals : ActWrite(1, k, v)

SpecWatch == InitWatch /\ [][NextWatch]_vars

\* the keys the evaluator ev reads when it runs in s
KeysRead(s, ev) ==
    CASE ev.t = "branch" ->
            {ev.p[1],
             IF Truthy(ValueOf(s, ev.o, ev.p[1])) THEN ev.p[2] ELSE ev.p[3]}
      [] ev.t = "sum" -> {ev.p[1], ev.p[2]}
      [] OTHER -> {ev.p[1]}

\* the dep of the cell o.k
CellDep(s, o, k) == s.heap[o].props[k].cells[Len(s.heap[o].props[k].cells)].dep

\* the deps of the cells ev reads when it runs in s
DepsRead(s, ev) == {CellDep(s, ev.o, k) : k \in KeysRead(s, ev)}

\* the deps that hold w as a subscriber
Subscriptions(s, w) == {d \in DOMAIN s.deps : Contains(s.deps[d], w)}

\* the last operation wrote a value the cell did not hold
ChangingWrite ==
    /\ last.op = "write"
    /\ ~IsHeld(last.v, ValueOf(PreState, last.o, last.k))

\* C4: a watcher is subscribed to exactly the deps its latest pass read (the
\* flag and the branch taken); a write re-invokes it, once, if and only if
\* it changes a key of that read set: writes to the other branch do not.
C4_DependencyMinimality ==
    /\ \A w \in DOMAIN ws :
          /\ Subscriptions(Cur, w) = ws[w].deps
          /\ ws[w].deps = DepsRead(Cur, ws[w].getter)
    /\ last.op = "write" =>
          \A w \in DOMAIN pre.ws :
             /\ CountIn(last.log, Ev("update", w, 0)) =
                   IF ChangingWrite /\ last.k \in KeysRead(PreState, pre.ws[w].getter)
                   THEN 1 ELSE 0
             /\ CountIn(last.log, Ev("eval", w, 0)) = CountIn(last.log, Ev("update", w, 0))

\* the branch watcher reads branch b after its flag was cleared; a write
\* that changes a does not re-invoke it
C4_Witness ==
    /\ ChangingWrite
    /\ last.k = "a"
    /\ \E w \in DOMAIN pre.ws :
          /\ pre.ws[w].getter.t = "branch"
          /\ pre.ws[w].deps = {CellDep(PreState, 1, "ok"), CellDep(PreState, 1, "b")}
          /\ CountIn(last.log, Ev("update", w, 0)) = 0

(***************************************************************************)
(* Computed properties: the data record {a: 1, b: 2} of an instance and    *)
(* the computed property a + b, whose watcher is lazy.                     *)
(***************************************************************************)
ComputedHeap ==
    <<Rec([k \in {"a", "b"} |-> IF k = "a" THEN DataProp(Num(1)) ELSE DataProp(Num(2))])>>

ComputedVals == {Num(1), Num(2), Num(4)}

InitComputed == InitFrom(Observe(Blank(ComputedHeap), Ref(1), TRUE).s)

NextComputed ==
    \/ ActWatch(EvSum(1, "a", "b"), TRUE, FALSE)
    \/ \E w \in 1..MaxWatchers : ActReadComputed(w)
    \/ \E k \in {"a", "b"}, v \in ComputedVals : ActWrite(1, k, v)

SpecComputed == InitComputed /\ [][NextComputed]_vars

\* C5: a read of a computed property evaluates its getter once if the
\* watcher is dirty (it is from its construction, and again after a write
\* that changes a dependency) and not at all otherwise, and returns the
\* getter's value on the current state; a write only marks the watcher
\* dirty and never runs the getter.
C5_LazyEvaluation ==
    /\ last.op = "computed" =>
          /\ CountIn(last.log, Ev("eval", last.o, 0)) =
                IF pre.ws[last.o].dirty THEN 1 ELSE 0
          /\ last.ret = JsAdd(ValueOf(Cur, 1, "a"), ValueOf(Cur, 1, "b"))
          /\ ~ws[last.o].dirty
    /\ last.op = "write" =>
          /\ CountKind(last.log, "eval") = 0
          /\ \A w \in DOMAIN ws :
                ws[w].dirty <=>
                   pre.ws[w].dirty \/ (ChangingWrite /\ pre.ws[w].deps # {})
    /\ last.op = "watch" => CountKind(last.log, "eval") = 0 /\ ws[last.o].dirty

\* a was written after a first read gave 3: the next read evaluates once
\* and gives 6
C5_Witness ==
    /\ last.op = "computed"
    /\ pre.ws[last.o].dirty
    /\ pre.ws[last.o].value = Num(3)
    /\ CountIn(last.log, Ev("eval", last.o, 0)) = 1
    /\ last.ret = Num(6)

(***************************************************************************)
(* Sequences: an observed record holds a sequence; a record and a          *)
(* non-extensible record are there to be inserted; a watcher reads the     *)
(* length of the sequence.                                                 *)
(***************************************************************************)
ArrHeap ==
    <<Rec([k \in {"a"} |-> DataProp(Ref(2))]),
      Arr(<<Num(2), Num(1)>>),
      Rec(NoProps),
      [Rec(NoProps) EXCEPT !.ext = FALSE]>>

ArrVals == {Num(1), Ref(3), Ref(4)}

ArrStarts == {Num(0), Num(1)}

ArrCounts == {Num(0), Num(1)}

InitArr == InitFrom(Observe(Blank(ArrHeap), Ref(1), FALSE).s)

NextArr ==
    \/ \E b \in BOOLEAN : ActToggle(b)
    \/ ActWatch(EvLen(1, "a"), FALSE, TRUE)
    \/ \E v \in ArrVals : ActArray(2, "push", <<v>>)
    \/ \E v, w \in ArrVals : ActArray(2, "push", <<v, w>>)
    \/ \E v \in ArrVals : ActArray(2, "unshift", <<v>>)
    \/ \E m \in {"pop", "shift", "sort", "reverse"} : ActArray(2, m, <<>>)
    \/ \E i \in ArrStarts : ActArray(2, "splice", <<i>>)
    \/ \E i \in ArrStarts, c \in ArrCounts : ActArray(2, "splice", <<i, c>>)
    \/ \E i \in ArrStarts, c \in ArrCounts, v \in ArrVals :
          ActArray(2, "splice", <<i, c, v>>)

SpecArr == InitArr /\ [][NextArr]_vars

\* the last operation was an intercepted operation on an observed sequence
ArrayCall == last.op \in methodsToPatch /\ pre.heap[last.o].ob # 0

\* the structural dep of the composite o before the last operation
PreObDep(o) == pre.obs[pre.heap[o].ob].dep

\* C6: a call of an intercepted operation on an observed sequence notifies
\* the structural dep of the sequence exactly once and no other dep, and
\* every watcher subscribed to that dep is re-invoked exactly once.
C6_NotifiesOnce ==
    ArrayCall =>
        /\ CountKind(last.log, "notify") = 1
        /\ CountIn(last.log, Ev("notify", PreObDep(last.o), 0)) = 1
        /\ \A w \in DOMAIN pre.ws :
              /\ CountIn(last.log, Ev("update", w, 0)) =
                    IF Contains(pre.deps[PreObDep(last.o)], w) THEN 1 ELSE 0
              /\ CountIn(last.log, Ev("eval", w, 0)) = CountIn(last.log, Ev("update", w, 0))

\* two elements were pushed at once; the subscribed watcher ran once
C6_Witness ==
    /\ ArrayCall
    /\ last.op = "push"
    /\ Len(last.args) = 2
    /\ \E w \in DOMAIN pre.ws :
          /\ Contains(pre.deps[PreObDep(last.o)], w)
          /\ CountIn(last.log, Ev("eval", w, 0)) = 1

\* the elements the last operation inserted
InsertedItems ==
    CASE last.op \in {"push", "unshift"} -> SeqToSet(last.args)
      [] last.op = "splice" /\ Len(last.args) > 2 ->
            SeqToSet(SubSeq(last.args, 3, Len(last.args)))
      [] OTHER -> {}

\* C7 as stated: every composite inserted by push, unshift or splice carries
\* an Observed Node when the call returns; pop, shift, sort and reverse
\* observe nothing new.
C7_EveryInsertedObserved ==
    ArrayCall =>
        /\ \A v \in InsertedItems : IsRef(v) => heap[v[2]].ob # 0
        /\ last.op \in {"pop", "shift", "sort", "reverse"} =>
              CountKind(last.log, "observer") = 0

\* C7, amended: every inserted composite that observe accepts (a plain
\* record or a sequence, extensible, not an instance) carries an Observed
\* Node when the call returns, provided observation is enabled or it carried
\* one before; any other inserted composite is left as it was; pop, shift,
\* sort and reverse observe nothing new.
C7_InsertedObserved ==
    ArrayCall =>
        /\ \A v \in InsertedItems : IsRef(v) =>
              IF Observable(v[2]) /\ (pre.shouldObserve \/ pre.heap[v[2]].ob # 0)
              THEN heap[v[2]].ob # 0
              ELSE heap[v[2]].ob = 0
        /\ last.op \in {"pop", "shift", "sort", "reverse"} =>
              CountKind(last.log, "observer") = 0

\* a splice inserted a record that carried no node: it carries one now
C7_Witness ==
    /\ ArrayCall
    /\ last.op = "splice"
    /\ \E v \in InsertedItems :
          IsRef(v) /\ pre.heap[v[2]].ob = 0 /\ heap[v[2]].ob # 0

\* C8: after an intercepted operation the elements of the sequence, the
\* value returned and the elements of a returned sequence are those of the
\* primitive applied to the elements before the call.
C8_SameAsNative ==
    ArrayCall =>
        /\ heap[last.o].elems =
              Native(pre.heap[last.o].elems, last.o, last.op, last.args).elems
        /\ last.ret = Native(pre.heap[last.o].elems, last.o, last.op, last.args).ret
        /\ last.removed =
              Native(pre.heap[last.o].elems, last.o, last.op, last.args).removed

\* a splice replaced the second element: it returned the removed element
C8_Witness ==
    /\ ArrayCall
    /\ last.op = "splice"
    /\ Len(last.args) = 3
    /\ last.args[1] = Num(1)
    /\ Len(last.removed) = 1
    /\ last.removed[1] = pre.heap[last.o].elems[2]
    /\ heap[last.o].elems[2] = last.args[3]

(***************************************************************************)
(* set and del: an observed record that is no root data, keys added and    *)
(* removed, one of them a name of Object.prototype, and watchers that read *)
(* the added keys.                                                         *)
(***************************************************************************)
SetDelHeap == <<Rec([k \in {"a"} |-> DataProp(Num(1))])>>

SetDelVals == {Num(5), Num(6)}

SetDelKeys == {"k", "toString"}

InitSetDel == InitFrom(Observe(Blank(SetDelHeap), Ref(1), FALSE).s)

\* the bound on the deps made in this specification
MaxSetDelDeps == 4

NextSetDel ==
    \/ \E k \in SetDelKeys, v \in SetDelVals :
          Len(deps) < MaxSetDelDeps /\ ActSet(Ref(1), k, v)
    \/ \E k \in SetDelKeys : ActDel(Ref(1), k)
    \/ \E k \in SetDelKeys, v \in SetDelVals :
          k \in DOMAIN heap[1].props /\ ActWrite(1, k, v)
    \/ \E k \in SetDelKeys : ActWatch(EvPath(1, <<k>>), FALSE, TRUE)

SpecSetDel == InitSetDel /\ [][NextSetDel]_vars

\* the last operation was called on an observed record that is no root data
OnObservedRecord ==
    /\ last.o # 0
    /\ pre.heap[last.o].kind = "rec"
    /\ ~pre.heap[last.o].isVue
    /\ pre.heap[last.o].ob # 0
    /\ pre.obs[pre.heap[last.o].ob].vmCount = 0

\* before the last operation, w was a watcher on o.k whose latest pass read
\* the cell of o.k
ReadTheCell(w, o, k) ==
    /\ pre.ws[w].getter = EvPath(o, <<k>>)
    /\ WasCell(o, k)
    /\ CellDep(PreState, o, k) \in pre.ws[w].deps

\* C9 as stated: set(obj, k, v) for a key k that is no own key of an
\* observed record that is no root creates a cell for k that holds v and
\* notifies the structural dep of the record exactly once; a later
\* set(obj, k, v') or obj.k = v' with another value re-evaluates a watcher
\* that read obj.k.
C9_SetMakesKeyReactive ==
    /\ last.op = "set" /\ OnObservedRecord /\ ~HasOwn(PreState, last.o, last.k) =>
          /\ HasOwn(Cur, last.o, last.k)
          /\ heap[last.o].props[last.k].cells # <<>>
          /\ ValueOf(Cur, last.o, last.k) = last.v
          /\ CountKind(last.log, "notify") = 1
          /\ CountIn(last.log, Ev("notify", PreObDep(last.o), 0)) = 1
    /\ last.op \in {"set", "write"} /\ OnObservedRecord =>
          \A w \in DOMAIN pre.ws :
             /\ ReadTheCell(w, last.o, last.k)
             /\ ~IsHeld(last.v, ValueOf(PreState, last.o, last.k))
             => CountIn(last.log, Ev("eval", w, 0)) >= 1

\* set(obj, 'toString', v') on the cell a first set made: the watcher that
\* read obj.toString is not re-evaluated and obj.toString reads as before
C9_Witness ==
    /\ last.op = "set"
    /\ OnObservedRecord
    /\ last.k = "toString"
    /\ \E w \in DOMAIN pre.ws :
          /\ ReadTheCell(w, last.o, last.k)
          /\ ~IsHeld(last.v, ValueOf(PreState, last.o, last.k))
          /\ CountIn(last.log, Ev("eval", w, 0)) = 0
          /\ ValueOf(Cur, last.o, last.k) = ValueOf(PreState, last.o, last.k)
          /\ Len(heap[last.o].props[last.k].cells) = 2

\* the own keys of o other than k are as they were
OthersKept(o, k) ==
    /\ DOMAIN heap[o].props \ {k} = DOMAIN pre.heap[o].props \ {k}
    /\ \A x \in DOMAIN heap[o].props \ {k} : heap[o].props[x] = pre.heap[o].props[x]

C10_WitnessAbsent ==
    /\ last.op = "del"
    /\ OnObservedRecord
    /\ ~HasOwn(PreState, last.o, last.k)
    /\ last.log = <<>>

(***************************************************************************)
(* Root data and invalid targets: a record that holds a number and a       *)
(* sequence and becomes the root data of an instance, an instance, and set *)
(* and del called on them, on the sequence and on targets that are no      *)
(* composites.                                                             *)
(***************************************************************************)
RootHeap ==
    <<Rec([k \in {"a", "b"} |-> IF k = "a" THEN DataProp(Num(1)) ELSE DataProp(Ref(3))]),
      [Rec([k \in {"a"} |-> DataProp(Num(1))]) EXCEPT !.isVue = TRUE],
      Arr(<<Num(1)>>)>>

RootTargets == {Undef, Null, Num(1), Ref(1), Ref(2), Ref(3)}

RootVals == {Num(5)}

RootKeys == {"a", "k", "0"}

\* the keys set and del are called with: an own key and a new key of a
\* record, an index of a sequence
RootKeyOf(target, k) ==
    IF ~IsRef(target) THEN k = "k"
    ELSE IF heap[target[2]].kind = "arr" THEN k = "0"
    ELSE k \in {"a", "k"}

InitRoot == InitFrom(Blank(RootHeap))

\* the bound on the deps made in this specification
MaxRootDeps == 5

NextRoot ==
    \/ \E root \in BOOLEAN : ActObserve(Ref(1), root)
    \/ \E target \in RootTargets, k \in RootKeys, v \in RootVals :
          RootKeyOf(target, k) /\ Len(deps) < MaxRootDeps /\ ActSet(target, k, v)
    \/ \E target \in RootTargets, k \in RootKeys :
          RootKeyOf(target, k) /\ ActDel(target, k)
    \/ \E v \in RootVals : ActWrite(1, "a", v)
    \/ ActRead(1, "a")
    \/ \E v \in RootVals : ActArray(3, "push", <<v>>)
    \/ ActArray(3, "pop", <<>>)

SpecRoot == InitRoot /\ [][NextRoot]_vars

\* before the last operation, the composite o was an instance or carried a
\* node with a nonzero root-usage counter
WasRoot(o) ==
    \/ pre.heap[o].isVue
    \/ pre.heap[o].ob # 0 /\ pre.obs[pre.heap[o].ob].vmCount # 0

\* the last operation was set or del on a root target, for a key that is no
\* index of a sequence
RootCall(op) ==
    /\ last.op = op
    /\ last.o # 0
    /\ WasRoot(last.o)
    /\ ~(pre.heap[last.o].kind = "arr" /\ IsValidArrayIndex(last.k))

\* the property o.k is a Reactive Cell
IsCell(o, k) == HasOwn(Cur, o, k) /\ heap[o].props[k].cells # <<>>

\* C11 as stated: set(target, k, v) for a new key k on a root target warns,
\* creates no cell and notifies nothing, and target[k] reads back v
\* afterwards; del on a root target warns and removes nothing.
C11_RootSetAssigns ==
    /\ RootCall("set") /\ ~HasOwn(PreState, last.o, last.k) =>
          /\ CountKind(last.log, "warn") = 1
          /\ ~IsCell(last.o, last.k)
          /\ CountKind(last.log, "notify") = 0
          /\ ValueOf(Cur, last.o, last.k) = last.v
    /\ RootCall("del") =>
          /\ CountKind(last.log, "warn") = 1
          /\ Snapshot(Cur) = pre

\* C11, amended: set(target, k, v) for a new key k on a root target warns,
\* creates no cell, notifies nothing and assigns nothing: the target and
\* everything else are as before, target[k] reads as it did, and set
\* returns v; del on a root target warns once and removes nothing.
C11_RootRejected ==
    /\ RootCall("set") /\ ~HasOwn(PreState, last.o, last.k) =>
          /\ last.log = <<Ev("warn", last.o, 0)>>
          /\ Snapshot(Cur) = pre
          /\ ~HasOwn(Cur, last.o, last.k)
          /\ ValueOf(Cur, last.o, last.k) = ValueOf(PreState, last.o, last.k)
          /\ last.ret = last.v
    /\ RootCall("del") =>
          /\ last.log = <<Ev("warn", last.o, 0)>>
          /\ Snapshot(Cur) = pre

\* set was called for a new key on a record observed as root data
C11_Witness ==
    /\ RootCall("set")
    /\ ~pre.heap[last.o].isVue
    /\ ~HasOwn(PreState, last.o, last.k)
    /\ ValueOf(Cur, last.o, last.k) = Undef
    /\ last.ret = last.v

\* del was called for an own key of a record observed as root data
C11_WitnessDel ==
    /\ RootCall("del")
    /\ ~pre.heap[last.o].isVue
    /\ HasOwn(PreState, last.o, last.k)
    /\ HasOwn(Cur, last.o, last.k)

\* the last operation was set or del on a target that is no composite
InvalidCall(op) == last.op = op /\ ~IsRef(last.args[1])

\* C12 as stated: set and del called with undefined, null or a primitive as
\* target log a warning and return without throwing; no dep is notified
\* and nothing changes.
C12_InvalidTargetReturns ==
    InvalidCall("set") \/ InvalidCall("del") =>
        /\ CountKind(last.log, "warn") = 1
        /\ last.ret # Threw
        /\ CountKind(last.log, "notify") = 0
        /\ Snapshot(Cur) = pre

\* set(undefined, k, v) logged its warning and threw
C12_Witness ==
    /\ InvalidCall("set")
    /\ last.args[1] = Undef
    /\ last.log = <<Ev("warn", 0, 0)>>
    /\ last.ret = Threw
    /\ Snapshot(Cur) = pre

\* del(5, k) logged its warning and returned
C12_WitnessDel ==
    /\ InvalidCall("del")
    /\ last.args[1] = Num(1)
    /\ last.log = <<Ev("warn", 0, 0)>>
    /\ last.ret = Undef

\* the path set(target, key, val) takes on the composite o in state s
SetPath(s, o, key) ==
    CASE s.heap[o].kind = "arr" /\ IsValidArrayIndex(key) -> "index"
      [] OTHER ->
           IF KeyIn(s, o, key) /\ key \notin ProtoKeys THEN "existing"
           ELSE IF s.heap[o].isVue \/ (s.heap[o].ob # 0 /\ s.obs[s.heap[o].ob].vmCount # 0)
           THEN "root"
           ELSE IF s.heap[o].ob = 0 THEN "unobserved"
           ELSE "cell"

CountedCall(n) == last.op = "observe" /\ last.flag /\ last.n = n

SeqHeap ==
    <<Rec([k \in {"a"} |-> DataProp(Ref(2))]),
      Arr(<<Num(1)>>),
      Rec(NoProps),
      [Rec(NoProps) EXCEPT !.ext = FALSE]>>

SeqVals == {Num(5), Ref(3), Ref(4)}

SeqKeys == {"0", "1", "2"}

InitSeq == InitFrom(Observe(Blank(SeqHeap), Ref(1), FALSE).s)

NextSeq ==
    \/ \E b \in BOOLEAN : ActToggle(b)
    \/ ActWatch(EvLen(1, "a"), FALSE, TRUE)
    \/ \E k \in SeqKeys, v \in SeqVals : IndexOf(k) < MaxLen /\ ActSet(Ref(2), k, v)
    \/ \E k \in SeqKeys : IndexOf(k) < MaxLen /\ ActDel(Ref(2), k)
    \/ ActArray(2, "pop", <<>>)

SpecSeq == InitSeq /\ [][NextSeq]_vars

\* the last operation was set or del on an observed sequence with a valid
\* index
SeqCall(op) ==
    /\ last.op = op
    /\ last.o # 0
    /\ pre.heap[last.o].kind = "arr"
    /\ pre.heap[last.o].ob # 0
    /\ IsValidArrayIndex(last.k)

\* the elements after seq[i] = v on a sequence grown to hold index i
StoredAt(elems, i, v) ==
    [j \in 1..Max(Len(elems), i + 1) |->
        IF j = i + 1 THEN v ELSE IF j <= Len(elems) THEN elems[j] ELSE Undef]

\* the elements without the one at index i
RemovedAt(elems, i) ==
    IF i >= Len(elems) THEN elems
    ELSE SubSeq(elems, 1, i) \o SubSeq(elems, i + 2, Len(elems))

\* the last operation notified the structural dep of its target once and
\* no other dep
NotifiedOnce ==
    /\ CountKind(last.log, "notify") = 1
    /\ CountIn(last.log, Ev("notify", PreObDep(last.o), 0)) = 1

\* C14 as stated: set(seq, i, v) on an observed sequence leaves seq[i] = v
\* and the length max(old length, i + 1), v carries an Observed Node if it
\* is a composite, and the structural dep of the sequence is notified
\* exactly once; del(seq, i) removes the element at i and notifies exactly
\* once.
C14_SetIndexAlwaysObserves ==
    /\ SeqCall("set") =>
          /\ heap[last.o].elems =
                StoredAt(pre.heap[last.o].elems, IndexOf(last.k), last.v)
          /\ IsRef(last.v) => heap[last.v[2]].ob # 0
          /\ NotifiedOnce
    /\ SeqCall("del") =>
          /\ heap[last.o].elems = RemovedAt(pre.heap[last.o].elems, IndexOf(last.k))
          /\ NotifiedOnce

\* C14, amended: as stated, except that v carries an Observed Node after
\* the call if and only if it is a composite that observe accepts (a plain
\* record or a sequence, extensible, no instance) and observation is enabled
\* or v carried a node before.
C14_SetIndex ==
    /\ SeqCall("set") =>
          /\ heap[last.o].elems =
                StoredAt(pre.heap[last.o].elems, IndexOf(last.k), last.v)
          /\ Len(heap[last.o].elems) =
                Max(Len(pre.heap[last.o].elems), IndexOf(last.k) + 1)
          /\ heap[last.o].elems[IndexOf(last.k) + 1] = last.v
          /\ IsRef(last.v) =>
                IF Observable(last.v[2]) /\ (pre.shouldObserve \/ pre.heap[last.v[2]].ob # 0)
                THEN heap[last.v[2]].ob # 0
                ELSE heap[last.v[2]].ob = 0
          /\ NotifiedOnce
    /\ SeqCall("del") =>
          /\ heap[last.o].elems = RemovedAt(pre.heap[last.o].elems, IndexOf(last.k))
          /\ NotifiedOnce

\* a record was set at index 1 of an empty sequence: the sequence has
\* length 2, the record is observed and the watcher of the length ran once
C14_Witness ==
    /\ SeqCall("set")
    /\ pre.heap[last.o].elems = <<>>
    /\ last.k = "1"
    /\ IsRef(last.v)
    /\ pre.heap[last.v[2]].ob = 0
    /\ heap[last.v[2]].ob # 0
    /\ heap[last.o].elems = <<Undef, last.v>>
    /\ \E w \in DOMAIN pre.ws : CountIn(last.log, Ev("eval", w, 0)) = 1

\* del removed the first of two elements
C14_WitnessDel ==
    /\ SeqCall("del")
    /\ last.k = "0"
    /\ Len(pre.heap[last.o].elems) = 2
    /\ heap[last.o].elems = <<pre.heap[last.o].elems[2]>>
    /\ NotifiedOnce

(***************************************************************************)
(* Values observe refuses: a record, a render-output node, a non-extensible*)
(* record, an instance, a composite that is neither a sequence nor a plain *)
(* record, a sequence that holds two of them, and values that are no       *)
(* composites.                                                             *)
(***************************************************************************)
RejectHeap ==
    <<Rec([k \in {"a"} |-> DataProp(Num(1))]),
      [Rec(NoProps) EXCEPT !.kind = "vnode"],
      [Rec(NoProps) EXCEPT !.ext = FALSE],
      [Rec(NoProps) EXCEPT !.isVue = TRUE],
      [Rec(NoProps) EXCEPT !.kind = "other"],
      Arr(<<Ref(2), Ref(3)>>)>>

RejectVals == {Undef, Null, Num(1)} \cup {Ref(o) : o \in DOMAIN RejectHeap}

InitReject == InitFrom(Blank(RejectHeap))

NextReject ==
    \/ \E b \in BOOLEAN : ActToggle(b)
    \/ \E v \in RejectVals, root \in BOOLEAN : ActObserve(v, root)
    \/ \E v \in {Num(1), Num(5)} : ActWrite(1, "a", v)

SpecReject == InitReject /\ [][NextReject]_vars

\* observe has a reason to refuse the value v in the state before the last
\* operation
Refused(v) ==
    \/ ~IsObject(v)
    \/ pre.heap[v[2]].kind = "vnode"
    \/ ~pre.heap[v[2]].ext
    \/ pre.heap[v[2]].isVue
    \/ pre.heap[v[2]].kind \notin {"arr", "rec"}
    \/ ~pre.shouldObserve

\* the value v carried a node before the last operation
CarriedNode(v) == IsRef(v) /\ pre.heap[v[2]].ob # 0

\* C15 as stated: observe(value) returns nothing and attaches no node
\* whenever value is no composite, is a render-output node, is not
\* extensible, is an instance, is neither a sequence nor a plain record, or
\* observation is disabled.
C15_RefusedAlwaysNothing ==
    last.op = "observe" /\ Refused(last.v) =>
        /\ last.n = 0
        /\ obs = pre.obs
        /\ IsRef(last.v) => heap[last.v[2]].ob = 0

\* C15, amended: observe(value) returns nothing, attaches no node and
\* changes nothing whenever value is no composite or is a render-output
\* node, and whenever value carries no node yet and is not extensible, is
\* an instance, is neither a sequence nor a plain record, or observation is
\* disabled; a value that carries a node has that node returned whatever
\* the other conditions are.
C15_ObserveRefuses ==
    /\ last.op = "observe" /\ Refused(last.v) /\ ~CarriedNode(last.v) =>
          /\ last.n = 0
          /\ Snapshot(Cur) = pre
          /\ last.log = <<>>
    /\ last.op = "observe" /\ CarriedNode(last.v) =>
          /\ last.n = pre.heap[last.v[2]].ob
          /\ heap[last.v[2]].ob = last.n

\* observe was called on a non-extensible record while observation was
\* enabled
C15_Witness ==
    /\ last.op = "observe"
    /\ IsRef(last.v)
    /\ ~pre.heap[last.v[2]].ext
    /\ pre.shouldObserve
    /\ last.n = 0
    /\ heap[last.v[2]].ob = 0

\* observe was called on a plain record without a node while observation
\* was disabled
C15_WitnessDisabled ==
    /\ last.op = "observe"
    /\ IsRef(last.v)
    /\ Observable(last.v[2])
    /\ ~pre.shouldObserve
    /\ last.n = 0
    /\ heap[last.v[2]].ob = 0

(***************************************************************************)
(* Accessors and non-configurable keys: a record with an accessor pair     *)
(* (key b), a getter without a setter (key c) and a non-configurable data  *)
(* property (key k), each holding a record of its own, is observed; a      *)
(* further record is there to be written.                                  *)
(***************************************************************************)
AccessorHeap ==
    <<Rec([k \in {"b", "c", "k"} |->
             CASE k = "b" -> AccessorProp(TRUE, TRUE, Ref(2))
               [] k = "c" -> AccessorProp(TRUE, FALSE, Ref(3))
               [] k = "k" -> FrozenProp(Ref(4))]),
      Rec([k \in {"a"} |-> DataProp(Num(1))]),
      Rec([k \in {"a"} |-> DataProp(Num(1))]),
      Rec([k \in {"a"} |-> DataProp(Num(1))]),
      Rec(NoProps)>>

AccessorVals == {Num(7), Ref(5)}

AccessorKeys == {"b", "c", "k"}

InitAccessor == InitFrom(Blank(AccessorHeap))

NextAccessor ==
    \/ ActObserve(Ref(1), FALSE)
    \/ \E k \in AccessorKeys, v \in AccessorVals : ActWrite(1, k, v)
    \/ \E k \in AccessorKeys : ActRead(1, k)
    \/ \E k \in AccessorKeys : ActWatch(EvPath(1, <<k>>), FALSE, TRUE)

SpecAccessor == InitAccessor /\ [][NextAccessor]_vars

\* the last operation was the observe that made the node of a record
FirstObserve ==
    /\ last.op = "observe"
    /\ last.o # 0
    /\ pre.heap[last.o].kind = "rec"
    /\ pre.heap[last.o].ob = 0
    /\ last.n # 0

\* the cell the last operation left on top of the property o.k
TopCell(o, k) == heap[o].props[k].cells[Len(heap[o].props[k].cells)]

\* the node, if any, of the value v; 0 for none
NodeOf(s, v) == IF IsRef(v) THEN s.heap[v[2]].ob ELSE 0

\* C17: when a record is observed, a key with a getter and no setter is
\* converted without its value being fetched or deep-observed (the cell
\* holds no value and no child node, and the value the getter returns gets
\* no node), while a key with a getter and a setter has its current value
\* fetched and observed (the cell holds the node of that value).
C17_GetterOnlyNotObserved ==
    FirstObserve =>
        \A k \in DOMAIN pre.heap[last.o].props :
            /\ pre.heap[last.o].props[k].conf
            /\ pre.heap[last.o].props[k].hasGet
            => /\ IsCell(last.o, k)
               /\ TopCell(last.o, k).getter
               /\ IF pre.heap[last.o].props[k].hasSet
                  THEN /\ TopCell(last.o, k).setter
                       /\ TopCell(last.o, k).val = ValueOf(PreState, last.o, k)
                       /\ TopCell(last.o, k).childOb = NodeOf(Cur, TopCell(last.o, k).val)
                       /\ IsRef(TopCell(last.o, k).val) /\ Observable(TopCell(last.o, k).val[2])
                          => TopCell(last.o, k).childOb # 0
                  ELSE /\ ~TopCell(last.o, k).setter
                       /\ TopCell(last.o, k).val = Undef
                       /\ TopCell(last.o, k).childOb = 0
                       /\ NodeOf(Cur, ValueOf(PreState, last.o, k)) =
                             NodeOf(PreState, ValueOf(PreState, last.o, k))

\* the record was observed: the record behind the accessor pair carries a
\* node, the record behind the getter without a setter does not
C17_Witness ==
    /\ FirstObserve
    /\ IsRef(ValueOf(PreState, last.o, "b"))
    /\ TopCell(last.o, "b").childOb # 0
    /\ NodeOf(Cur, ValueOf(PreState, last.o, "b")) = TopCell(last.o, "b").childOb
    /\ IsRef(ValueOf(PreState, last.o, "c"))
    /\ TopCell(last.o, "c").childOb = 0
    /\ NodeOf(Cur, ValueOf(PreState, last.o, "c")) = 0

\* C18: a write to a Reactive Cell that has a delegate getter and no
\* delegate setter is rejected silently: nothing is thrown or logged, no
\* dep is notified, no watcher runs, the value read afterwards is the value
\* read before, and the new value gets no node: nothing changes at all.
C18_GetterOnlyWriteRejected ==
    last.op = "write" /\ WasCell(last.o, last.k) /\ WasGetterOnly(last.o, last.k) =>
        /\ last.log = <<>>
        /\ ValueOf(Cur, last.o, last.k) = ValueOf(PreState, last.o, last.k)
        /\ NodeOf(Cur, last.v) = NodeOf(PreState, last.v)
        /\ Snapshot(Cur) = pre

\* a record without a node was written to the cell of the getter without a
\* setter while a watcher was subscribed to that cell
C18_Witness ==
    /\ last.op = "write"
    /\ WasCell(last.o, last.k)
    /\ WasGetterOnly(last.o, last.k)
    /\ IsRef(last.v)
    /\ last.v # ValueOf(PreState, last.o, last.k)
    /\ NodeOf(Cur, last.v) = 0
    /\ pre.deps[PreTopCell(last.o, last.k).dep] # <<>>
    /\ last.log = <<>>

\* before the last operation, o.k was a non-configurable own property
NonConfigurable(o, k) ==
    /\ o \in DOMAIN pre.heap
    /\ k \in DOMAIN pre.heap[o].props
    /\ ~pre.heap[o].props[k].conf

\* before the last operation, no other key of o held the value of o.k
HeldByNoOther(o, k) ==
    \A x \in DOMAIN pre.heap[o].props \ {k} :
        ValueOf(PreState, o, x) # ValueOf(PreState, o, k)

\* C19: defineReactive on a key whose property is non-configurable changes
\* nothing: when the record is observed the descriptor and the value stay
\* as they were, no accessor is installed and the value gets no node
\* (unless another key holds the same value and has it observed); at any
\* later time the key is no cell, a read or a write of it registers and
\* notifies nothing, and a watcher that reads it holds no dep.
C19_NonConfigurableSkipped ==
    /\ \A o \in DOMAIN heap : \A k \in DOMAIN pre.heap[o].props :
          NonConfigurable(o, k) =>
             /\ HasOwn(Cur, o, k)
             /\ ~IsCell(o, k)
             /\ ~heap[o].props[k].conf
             /\ last.op = "observe" =>
                   /\ heap[o].props[k] = pre.heap[o].props[k]
                   /\ HeldByNoOther(o, k) =>
                         NodeOf(Cur, ValueOf(Cur, o, k)) = NodeOf(PreState, ValueOf(Cur, o, k))
    /\ last.op \in {"read", "write"} /\ NonConfigurable(last.o, last.k) =>
          /\ last.log = <<>>
          /\ deps = pre.deps
          /\ ws = pre.ws
    /\ last.op = "watch" /\ NonConfigurable(ws[last.o].getter.o, ws[last.o].getter.p[1]) =>
          /\ ws[last.o].deps = {}
          /\ Subscriptions(Cur, last.o) = {}
          /\ deps = pre.deps

\* the record was observed: the accessor pair became a cell, the
\* non-configurable key and the record it holds are as they were
C19_Witness ==
    /\ FirstObserve
    /\ NonConfigurable(last.o, "k")
    /\ IsCell(last.o, "b")
    /\ heap[last.o].props["k"] = pre.heap[last.o].props["k"]
    /\ IsRef(ValueOf(Cur, last.o, "k"))
    /\ NodeOf(Cur, ValueOf(Cur, last.o, "k")) = 0

\* the non-configurable key of the observed record was written while a
\* watcher that had read it was there: nothing was notified
C19_WitnessWrite ==
    /\ last.op = "write"
    /\ NonConfigurable(last.o, last.k)
    /\ pre.heap[last.o].ob # 0
    /\ \E w \in DOMAIN pre.ws : pre.ws[w].getter = EvPath(last.o, <<last.k>>)
    /\ ValueOf(Cur, last.o, last.k) = last.v
    /\ last.v # ValueOf(PreState, last.o, last.k)
    /\ last.log = <<>>

(***************************************************************************)
(* Dependency collection: an observed record holds a sequence that holds  *)
(* a sequence that holds a record; a second record receives cells as       *)
(* initProps and initRender define them, deep or shallow; watchers read    *)
(* the cells.                                                              *)
(***************************************************************************)
DependHeap ==
    <<Rec([k \in {"a"} |-> DataProp(Ref(2))]),
      Arr(<<Ref(3)>>),
      Arr(<<Ref(4)>>),
      Rec(NoProps),
      Rec(NoProps)>>

DependVals == {Num(1), Ref(2)}

InitDepend == InitFrom(Observe(Blank(DependHeap), Ref(1), FALSE).s)

NextDepend ==
    \/ \E v \in DependVals, shallow \in BOOLEAN : ActDefineReactive(5, "a", v, FALSE, shallow)
    \/ \E o \in {1, 5} : "a" \in DOMAIN heap[o].props /\ ActWatch(EvPath(o, <<"a">>), FALSE, TRUE)
    \/ \E o \in {1, 5} : "a" \in DOMAIN heap[o].props /\ ActRead(o, "a")
    \/ \E v \in DependVals : ActWrite(1, "a", v)
    \/ ActArray(3, "pop", <<>>)
    \/ ActArray(3, "push", <<Ref(4)>>)

SpecDepend == InitDepend /\ [][NextDepend]_vars

\* the composites found in the sequence a and in the sequences it holds, at
\* any depth
RECURSIVE NestedIn(_, _)
NestedIn(s, a) ==
    {s.heap[a].elems[i][2] : i \in {j \in DOMAIN s.heap[a].elems : IsRef(s.heap[a].elems[j])}}
    \cup UNION {NestedIn(s, s.heap[a].elems[i][2]) :
                  i \in {j \in DOMAIN s.heap[a].elems : IsArray(s, s.heap[a].elems[j])}}

\* the structural deps of the observed composites nested in the value v,
\* if v is a sequence
NestedDeps(s, v) ==
    IF IsArray(s, v)
    THEN {s.obs[s.heap[e].ob].dep : e \in {x \in NestedIn(s, v[2]) : s.heap[x].ob # 0}}
    ELSE {}

\* the cell on top of o.k in s
CellOf(s, o, k) == s.heap[o].props[k].cells[Len(s.heap[o].props[k].cells)]

\* the structural dep of the child node of the cell c, if it has one
ChildDep(s, c) == IF c.childOb # 0 THEN {s.obs[c.childOb].dep} ELSE {}

\* the watcher w evaluated in the last operation
Evaluated(w) == CountIn(last.log, Ev("eval", w, 0)) >= 1

\* a read with no active target changes no dep and returns the value held
ReadCollectsNothing ==
    last.op = "read" /\ WasCell(last.o, last.k) =>
        /\ deps = pre.deps
        /\ ws = pre.ws
        /\ last.ret = PreTopCell(last.o, last.k).val

\* C20 as stated: a read of a cell by a watcher subscribes the watcher to
\* the dep of the cell, to the structural dep of the child node if there is
\* one and, if the value is a sequence, to the structural dep of every
\* observed composite nested in it at any depth, and returns the current
\* value; a read with no active target changes no dep.
C20_SequenceAlwaysCollected ==
    /\ \A w \in DOMAIN ws :
          Evaluated(w) /\ IsCell(ws[w].getter.o, "a") =>
             /\ ws[w].deps =
                   {CellOf(Cur, ws[w].getter.o, "a").dep}
                   \cup ChildDep(Cur, CellOf(Cur, ws[w].getter.o, "a"))
                   \cup NestedDeps(Cur, CellOf(Cur, ws[w].getter.o, "a").val)
             /\ Subscriptions(Cur, w) = ws[w].deps
             /\ ws[w].value = CellOf(Cur, ws[w].getter.o, "a").val
    /\ ReadCollectsNothing

\* C20, amended: as stated, except that the observed composites nested in
\* a sequence are subscribed to only if the cell has a child node.
C20_ReadCollects ==
    /\ \A w \in DOMAIN ws :
          Evaluated(w) /\ IsCell(ws[w].getter.o, "a") =>
             /\ ws[w].deps =
                   {CellOf(Cur, ws[w].getter.o, "a").dep}
                   \cup ChildDep(Cur, CellOf(Cur, ws[w].getter.o, "a"))
                   \cup (IF CellOf(Cur, ws[w].getter.o, "a").childOb # 0
                         THEN NestedDeps(Cur, CellOf(Cur, ws[w].getter.o, "a").val)
                         ELSE {})
             /\ Subscriptions(Cur, w) = ws[w].deps
             /\ ws[w].value = CellOf(Cur, ws[w].getter.o, "a").val
    /\ ReadCollectsNothing

\* a watcher read the cell that holds the sequence: it is subscribed to the
\* cell, to the sequence, to the inner sequence and to the record in it
C20_Witness ==
    /\ last.op = "watch"
    /\ ws[last.o].getter.o = 1
    /\ ws[last.o].value = Ref(2)
    /\ Cardinality(NestedDeps(Cur, Ref(2))) = 2
    /\ Cardinality(ws[last.o].deps) = 4
    /\ \A d \in ws[last.o].deps : Contains(deps[d], last.o)

\* the cell was read with no active target while a watcher existed
C20_WitnessNoTarget ==
    /\ last.op = "read"
    /\ WasCell(last.o, last.k)
    /\ ws # <<>>
    /\ last.ret = Ref(2)
    /\ deps = pre.deps

(***************************************************************************)
(* One cell per key, and the path set takes (checked under SpecSetDel).    *)
(***************************************************************************)
\* C21: each (record, key) pair has at most one Reactive Cell: after any
\* observe, set and del calls no property carries two stacked accessor
\* pairs, also for keys named like members of Object.prototype and keys
\* added again after del.
C21_OneCellPerKey ==
    \A o \in DOMAIN heap : \A k \in DOMAIN heap[o].props :
        Len(heap[o].props[k].cells) <= 1

\* set(obj, 'toString', v) on an own reactive key left two cells on it
C21_Witness ==
    /\ last.op = "set"
    /\ OnObservedRecord
    /\ WasCell(last.o, last.k)
    /\ Len(pre.heap[last.o].props[last.k].cells) = 1
    /\ Len(heap[last.o].props[last.k].cells) = 2
    /\ heap[last.o].props[last.k].cells[1].dep # heap[last.o].props[last.k].cells[2].dep

\* the number of cells on o.k in s, 0 when o has no such key
CellCount(s, o, k) == IF HasOwn(s, o, k) THEN Len(s.heap[o].props[k].cells) ELSE 0

\* C30: set(target, k, v) on an observed record that is no root assigns
\* directly exactly when k is an own key: it then writes through the
\* existing cell, notifying that cell's dep alone and only when the value
\* changes, makes no cell and leaves the structural dep alone; for every k
\* that is no own key it makes a cell and notifies the structural dep.
C30_DirectIffOwn ==
    last.op = "set" /\ OnObservedRecord =>
        IF HasOwn(PreState, last.o, last.k)
        THEN /\ CellCount(Cur, last.o, last.k) = CellCount(PreState, last.o, last.k)
             /\ CountIn(last.log, Ev("notify", PreObDep(last.o), 0)) = 0
             /\ CountKind(last.log, "notify") =
                   IF IsHeld(last.v, ValueOf(PreState, last.o, last.k)) THEN 0 ELSE 1
             /\ WasCell(last.o, last.k) =>
                   CountIn(last.log, Ev("notify", PreTopCell(last.o, last.k).dep, 0)) =
                      CountKind(last.log, "notify")
        ELSE /\ CellCount(Cur, last.o, last.k) = 1
             /\ CountKind(last.log, "notify") = 1
             /\ CountIn(last.log, Ev("notify", PreObDep(last.o), 0)) = 1

\* set on the own reactive key 'toString' notified the structural dep and
\* not the dep of the cell
C30_Witness ==
    /\ last.op = "set"
    /\ OnObservedRecord
    /\ last.k = "toString"
    /\ WasCell(last.o, last.k)
    /\ CountIn(last.log, Ev("notify", PreObDep(last.o), 0)) = 1
    /\ CountIn(last.log, Ev("notify", PreTopCell(last.o, last.k).dep, 0)) = 0

\* set on the own reactive key 'k' wrote through its cell
C30_WitnessDirect ==
    /\ last.op = "set"
    /\ OnObservedRecord
    /\ last.k = "k"
    /\ WasCell(last.o, last.k)
    /\ CountIn(last.log, Ev("notify", PreTopCell(last.o, last.k).dep, 0)) = 1
    /\ CountKind(last.log, "notify") = 1
    /\ ValueOf(Cur, last.o, last.k) = last.v

(***************************************************************************)
(* Subscribers: vm.$watch, the unwatch handle, notification and a throwing *)
(* evaluator.  Record 1 is observed; its key ok is a plain property added  *)
(* by assignment, so a write to it notifies nobody.                        *)
(***************************************************************************)
SubsHeap ==
    <<Rec([k \in {"a", "b"} |-> IF k = "a" THEN DataProp(Num(1)) ELSE DataProp(Ref(2))]),
      Rec(NoProps)>>

\* flag ? a : b on record 1, b.a which throws when b is null, and a + a
SubsEvs == {EvBranch(1, "ok", "a", "b"), EvPath(1, <<"b", "a">>), EvSum(1, "a", "a")}

InitSubs == InitFrom(Observe(Blank(SubsHeap), Ref(1), FALSE).s)

NextSubs ==
    \/ \E ev \in SubsEvs : ActVmWatch(ev, FALSE, FALSE)
    \/ \E w \in 1..MaxWatchers : ActUnwatch(w)
    \/ \E v \in {Num(0), Num(1)} : ActWrite(1, "ok", v)
    \/ \E v \in {Num(1), Num(2)} : ActWrite(1, "a", v)
    \/ \E v \in {Null, Ref(2)} : ActWrite(1, "b", v)

SpecSubs == InitSubs /\ [][NextSubs]_vars

\* the watchers of the "update" events of log, in order
RECURSIVE UpdatedIn(_)
UpdatedIn(log) ==
    IF log = <<>> THEN <<>>
    ELSE (IF Head(log)[1] = "update" THEN <<Head(log)[2]>> ELSE <<>>) \o UpdatedIn(Tail(log))

\* the deps of the "notify" events of log, in order
RECURSIVE NotifiedIn(_)
NotifiedIn(log) ==
    IF log = <<>> THEN <<>>
    ELSE (IF Head(log)[1] = "notify" THEN <<Head(log)[2]>> ELSE <<>>) \o NotifiedIn(Tail(log))

\* the one dep the last operation notified
Notified == NotifiedIn(last.log)[1]

OneNotify == CountKind(last.log, "notify") = 1

C24_SubscriptionSymmetry ==
    targetStack = <<>> =>
        \A w \in DOMAIN ws :
            /\ ws[w].newDeps = {}
            /\ \A d \in DOMAIN deps :
                  CountIn(deps[d], w) = IF d \in ws[w].deps THEN 1 ELSE 0

\* a watcher of a + a was re-evaluated and is once in the list of a's dep
C24_Witness ==
    /\ ChangingWrite
    /\ last.k = "a"
    /\ \E w \in DOMAIN ws :
          /\ ws[w].getter = EvSum(1, "a", "a")
          /\ Evaluated(w)
          /\ ws[w].deps = {CellDep(Cur, 1, "a")}
          /\ CountIn(deps[CellDep(Cur, 1, "a")], w) = 1

(***************************************************************************)
(* vm.$watch with the immediate option and the unwatch handle: the watcher *)
(* reads b.a on record 1, whose b is null or record 2; set and del add and *)
(* remove the key a of record 2.                                           *)
(***************************************************************************)
NextUnwatch ==
    \/ \E immediate \in BOOLEAN, cbFails \in BOOLEAN :
          (cbFails => immediate) /\ ActVmWatch(EvPath(1, <<"b", "a">>), immediate, cbFails)
    \/ \E w \in 1..MaxWatchers : ActUnwatch(w)
    \/ \E v \in {Null, Ref(2)} : ActWrite(1, "b", v)
    \/ \E v \in {Num(1), Num(2)} : ActSet(Ref(2), "a", v)
    \/ ActDel(Ref(2), "a")

SpecUnwatch == InitSubs /\ [][NextUnwatch]_vars

\* the events of log that are about watcher w
AboutWatcher(log, w) ==
    CountIn(log, Ev("update", w, 0)) + CountIn(log, Ev("eval", w, 0))
      + CountIn(log, Ev("cb", w, 0)) + CountIn(log, Ev("error", w, 0))

C26_WitnessTwice == last.op = "unwatch" /\ ~pre.ws[last.o].active

\* set changed the cell of b.a while one watcher of it was torn down and
\* the other was not
C26_WitnessWrite ==
    /\ last.op = "set"
    /\ WasCell(2, "a")
    /\ ValueOf(Cur, 1, "b") = Ref(2)
    /\ Len(pre.ws) = 2
    /\ ~pre.ws[1].active
    /\ pre.ws[2].active
    /\ UpdatedIn(last.log) = <<2>>

\* del removed the key a of record 2 while a watcher of b.a was torn down
C26_WitnessDel ==
    /\ last.op = "del"
    /\ OneNotify
    /\ \E w \in DOMAIN pre.ws : ~pre.ws[w].active

\* the evaluator of w throws in the current state
ThrowsNow(w) ==
    /\ ws[w].getter = EvPath(1, <<"b", "a">>)
    /\ ValueOf(Cur, 1, "b") = Null

\* C27: when the evaluator of a watcher throws, the error goes to the error
\* handler and the operation that caused the pass completes: the watcher
\* keeps its value and its callback is not called, its deps are those it
\* read before the error, the target is popped, a write is stored and the
\* other subscribers of the notification are still evaluated.  No error is
\* reported for an evaluator that does not throw.
C27_EvaluatorErrorContained ==
    \A w \in DOMAIN ws :
        /\ CountIn(last.log, Ev("error", w, 0)) =
              IF ThrowsNow(w) THEN CountIn(last.log, Ev("eval", w, 0)) ELSE 0
        /\ Evaluated(w) /\ ThrowsNow(w) =>
              /\ CountIn(last.log, Ev("cb", w, 0)) = 0
              /\ ws[w].value = IF w \in DOMAIN pre.ws THEN pre.ws[w].value ELSE Undef
              /\ ws[w].deps = {CellDep(Cur, 1, "b")}
              /\ ws[w].newDeps = {}
              /\ Subscriptions(Cur, w) = ws[w].deps
              /\ targetStack = <<>>
              /\ last.op = "write" =>
                    /\ ValueOf(Cur, last.o, last.k) = last.v
                    /\ OneNotify
                    /\ \A x \in SeqToSet(pre.deps[Notified]) :
                          pre.ws[x].active => Evaluated(x)

\* b = null made the first subscriber throw; the second one, which reads
\* flag ? a : b, was evaluated after it and called back
C27_Witness ==
    /\ last.op = "write"
    /\ last.k = "b"
    /\ last.v = Null
    /\ OneNotify
    /\ Len(pre.deps[Notified]) = 2
    /\ ThrowsNow(pre.deps[Notified][1])
    /\ CountIn(last.log, Ev("error", pre.deps[Notified][1], 0)) = 1
    /\ ws[pre.deps[Notified][2]].getter = EvBranch(1, "ok", "a", "b")
    /\ CountIn(last.log, Ev("cb", pre.deps[Notified][2], 0)) = 1
    /\ ws[pre.deps[Notified][1]].value = pre.ws[pre.deps[Notified][1]].value

\* what the evaluator ev returns in the current state, undefined when it
\* throws
ValueNow(ev) ==
    IF Evaluate(Cur, ev).ret = Threw THEN Undef ELSE Evaluate(Cur, ev).ret

C29_WitnessThrew ==
    /\ last.op = "$watch"
    /\ last.flag
    /\ CountIn(last.log, Ev("error", last.o, 0)) = 1
    /\ last.log[Len(last.log)] = Ev("immediate", last.o, Undef)

\* a watch without the option
C29_WitnessPlain ==
    /\ last.op = "$watch"
    /\ ~last.flag
    /\ ws[last.o].value = Num(2)
    /\ CountKind(last.log, "immediate") = 0

(***************************************************************************)
(* A chain of computed properties: lazy watcher 1 computes a + b on the    *)
(* observed record 1, lazy watcher 2 reads the computed property of 1, and *)
(* the user watcher 3 reads the computed property of 2.                    *)
(***************************************************************************)
ChainHeap == <<Rec([k \in {"a", "b"} |-> DataProp(Num(1))])>>

ChainVals == {Num(1), Num(2), Num(3)}

\* initState: the data is observed, initComputed makes the lazy watchers,
\* initWatch the user watcher
InitChain ==
    InitFrom(NewWatcher(
               NewWatcher(
                 NewWatcher(Observe(Blank(ChainHeap), Ref(1), TRUE).s,
                            EvSum(1, "a", "b"), TRUE, FALSE),
                 EvComp(1), TRUE, FALSE),
               EvComp(2), FALSE, TRUE))

NextChain ==
    \/ \E k \in {"a", "b"}, v \in ChainVals : ActWrite(1, k, v)
    \/ \E w \in {1, 2} : ActReadComputed(w)
    \/ ActUnwatch(3)

SpecChain == InitChain /\ [][NextChain]_vars

\* a + b on the current state
SumNow == JsAdd(ValueOf(Cur, 1, "a"), ValueOf(Cur, 1, "b"))

\* C25: while the outer watcher 3 is active it holds every dep the lazy
\* watcher 2 holds, which holds every dep of the lazy watcher 1, the deps
\* of the cells a and b; a write that changes a or b updates 1, 2 and 3 in
\* that order, 3 is evaluated once and evaluates 2 and 1 again, and the
\* three values are a + b on the new state.  Once 3 is torn down such a
\* write leaves 1 and 2 dirty and evaluates nothing, and the next read of
\* a computed property returns a + b on the new state.
C25_ChainInvalidation ==
    /\ ws[3].active =>
          /\ ws[1].deps = {CellDep(Cur, 1, "a"), CellDep(Cur, 1, "b")}
          /\ ws[1].deps \subseteq ws[2].deps
          /\ ws[2].deps \subseteq ws[3].deps
          /\ \A d \in ws[3].deps : Contains(deps[d], 3)
          /\ ~ws[1].dirty /\ ~ws[2].dirty
          /\ ws[3].value = SumNow
    /\ ChangingWrite /\ pre.ws[3].active =>
          /\ UpdatedIn(last.log) = <<1, 2, 3>>
          /\ \A w \in 1..3 : CountIn(last.log, Ev("eval", w, 0)) = 1
          /\ ws[1].value = SumNow /\ ws[2].value = SumNow
          /\ CountIn(last.log, Ev("cb", 3, 0)) =
                IF StrictEq(SumNow, pre.ws[3].value) THEN 0 ELSE 1
    /\ ChangingWrite /\ ~pre.ws[3].active =>
          /\ ws[1].dirty /\ ws[2].dirty
          /\ CountKind(last.log, "eval") = 0
    /\ last.op = "computed" =>
          /\ last.ret = SumNow
          /\ \A w \in 1..last.o : ~ws[w].dirty /\ ws[w].value = SumNow

\* a write changed a under the active chain: the outer watcher was
\* evaluated again and holds 2 + 3
C25_Witness ==
    /\ ChangingWrite
    /\ last.k = "a"
    /\ pre.ws[3].active
    /\ UpdatedIn(last.log) = <<1, 2, 3>>
    /\ pre.ws[3].value # Num(5)
    /\ ws[3].value = Num(5)
    /\ ws[3].deps = ws[1].deps

\* the computed property of 2 was read after a write that left 1 and 2 dirty
C25_WitnessRead ==
    /\ last.op = "computed"
    /\ last.o = 2
    /\ pre.ws[1].dirty /\ pre.ws[2].dirty
    /\ last.ret = SumNow
    /\ last.ret # pre.ws[2].value

(***************************************************************************)
(* The data function.  Record 1 is observed state of a parent instance,    *)
(* its b is null or record 2; 3 is a new instance whose state is           *)
(* initialised by initData, on its own or inside the pass of a watcher     *)
(* whose evaluator makes the instance; 4 is a record not yet observed.     *)
(***************************************************************************)
DataHeap ==
    <<Rec([k \in {"b"} |-> DataProp(Ref(2))]),
      Rec(NoProps),
      [Rec(NoProps) EXCEPT !.isVue = TRUE],
      Rec([k \in {"a"} |-> DataProp(Num(1))])>>

\* data functions: return record 4; return b of record 1; return b.a,
\* which throws when b is null
DataFns == <<EvPath(4, <<>>), EvPath(1, <<"b">>), EvPath(1, <<"b", "a">>)>>

InitDataFn == InitFrom(Observe(Blank(DataHeap), Ref(1), TRUE).s)

NextDataFn ==
    \/ \E n \in DOMAIN DataFns : ActInitData(3, DataFns, n)
    \/ \E n \in DOMAIN DataFns :
          ActWatch(EvInit(3, DataFns[n].o, DataFns[n].p), FALSE, TRUE)
    \/ ActWatch(EvPath(1, <<"b", "a">>), TRUE, FALSE)
    \/ \E w \in DOMAIN ws : ws[w].lazy /\ ActWatch(EvComp(w), FALSE, TRUE)
    \/ \E w \in DOMAIN ws : ActReadComputed(w)
    \/ \E v \in {Null, Ref(2)} : ActWrite(1, "b", v)
    \/ HasOwn(Cur, 3, "a") /\ ActRead(3, "a")
    \/ HasOwn(Cur, 3, "a") /\ ActWrite(3, "a", Num(2))

SpecDataFn == InitDataFn /\ [][NextDataFn]_vars

\* the last of a stack of targets, 0 for none
TopOf(stack) == IF stack = <<>> THEN 0 ELSE stack[Len(stack)]

\* the push and pop events of log are matched pairs over `stack`: each push
\* replaces the target on top, and each pop removes the target of the push
\* it matches and restores the target that push replaced
RECURSIVE Balanced(_, _)
Balanced(log, stack) ==
    IF log = <<>> THEN stack = <<>>
    ELSE IF Head(log)[1] = "push"
    THEN /\ Head(log)[3] = TopOf(stack)
         /\ Balanced(Tail(log), Append(stack, Head(log)[2]))
    ELSE IF Head(log)[1] = "pop"
    THEN /\ stack # <<>>
         /\ Head(log)[2] = TopOf(stack)
         /\ Head(log)[3] = TopOf(SubSeq(stack, 1, Len(stack) - 1))
         /\ Balanced(Tail(log), SubSeq(stack, 1, Len(stack) - 1))
    ELSE Balanced(Tail(log), stack)

\* C22: the pushes and pops of the target pointer are matched pairs: when
\* an evaluation pass or a data function call ends, by a return or by an
\* error, inside another pass or not, the pointer is again the watcher, or
\* none, it was when the pass began; between operations it is none.
C22_TargetBalance ==
    /\ targetStack = <<>>
    /\ Balanced(last.log, <<>>)

\* the lazy watcher 1 threw inside the pass of watcher 2, and 2 was the
\* target again
C22_Witness ==
    /\ Len(ws) = 2
    /\ ws[2].getter = EvComp(1)
    /\ CountIn(last.log, Ev("push", 1, 2)) = 1
    /\ CountIn(last.log, Ev("error", 1, 0)) = 1
    /\ CountIn(last.log, Ev("pop", 1, 2)) = 1
    /\ CountIn(last.log, Ev("pop", 2, 0)) = 1

\* a data function threw inside the pass of a watcher
C22_WitnessData ==
    /\ last.op = "watch"
    /\ CountIn(last.log, Ev("push", 0, last.o)) = 1
    /\ CountIn(last.log, Ev("dataerror", 3, 0)) = 1
    /\ CountIn(last.log, Ev("pop", 0, last.o)) = 1

\* the last operation initialised the state of instance 3
InitRan ==
    \/ last.op = "initData"
    \/ /\ last.op = "watch"
       /\ ws[last.o].getter.t = "init"
       /\ ~HasOwn(PreState, 3, "_data")

\* the data function it called
DataFn ==
    IF last.op = "initData" THEN DataFns[last.n]
    ELSE EvPath(ws[last.o].getter.o, ws[last.o].getter.p)

\* the watcher whose pass it ran in, 0 for none
OuterWatcher == IF last.op = "watch" THEN last.o ELSE 0

DataThrew == DataFn = DataFns[3] /\ ValueOf(PreState, 1, "b") = Null

\* C28: initData calls the data function with no target: no watcher, the
\* one being evaluated included, is subscribed to any dep by it, and the
\* target it replaced is restored.  If the function throws, the error goes
\* to the error handler and vm._data is a new empty record, observed as
\* root data; else vm._data is what the function returned.
C28_DataFunctionNoTarget ==
    InitRan =>
        /\ \A d \in DOMAIN deps :
              deps[d] = IF d \in DOMAIN pre.deps THEN pre.deps[d] ELSE <<>>
        /\ \A w \in DOMAIN ws :
              ws[w].deps = IF w \in DOMAIN pre.ws THEN pre.ws[w].deps ELSE {}
        /\ CountIn(last.log, Ev("push", 0, OuterWatcher)) = 1
        /\ CountIn(last.log, Ev("pop", 0, OuterWatcher)) = 1
        /\ targetStack = <<>>
        /\ CountIn(last.log, Ev("dataerror", 3, 0)) = IF DataThrew THEN 1 ELSE 0
        /\ CountKind(last.log, "error") = 0
        /\ IF DataThrew
           THEN /\ Len(heap) = Len(pre.heap) + 1
                /\ ValueOf(Cur, 3, "_data") = Ref(Len(heap))
                /\ heap[Len(heap)] = [Rec(NoProps) EXCEPT !.ob = Len(obs)]
                /\ obs[Len(obs)].value = Len(heap)
                /\ obs[Len(obs)].vmCount = 1
                /\ CountKind(last.log, "warn") = 0
           ELSE ValueOf(Cur, 3, "_data") = Evaluate(PreState, DataFn).ret

\* a data function that reads the observed cell b ran inside the pass of a
\* watcher, which holds no dep
C28_Witness ==
    /\ last.op = "watch"
    /\ InitRan
    /\ DataFn = DataFns[2]
    /\ ws[last.o].deps = {}
    /\ ValueOf(Cur, 3, "_data") = Ref(2)
    /\ obs[heap[2].ob].vmCount = 1

\* a data function threw inside the pass of a watcher: the data is a new
\* empty record
C28_WitnessThrew ==
    /\ last.op = "watch"
    /\ InitRan
    /\ DataThrew
    /\ ValueOf(Cur, 3, "_data") = Ref(5)
    /\ heap[5].props = NoProps
    /\ heap[5].ob # 0
    /\ CountIn(last.log, Ev("pop", 0, last.o)) = 1

(***************************************************************************)
(* set and del on a record without a node.  Record 1 is never observed;    *)
(* defineReactive has given its key b a cell, as initProps does for the    *)
(* props record of an instance.                                            *)
(***************************************************************************)
PlainHeap == <<Rec([k \in {"a"} |-> DataProp(Num(1))]), Rec(NoProps)>>

PlainVals == {Num(5), Ref(2)}

PlainKeys == {"a", "b", "k"}

InitPlain ==
    InitFrom(DefineReactive(Blank(PlainHeap), 1, "b", Num(1), FALSE, FALSE, FALSE))

NextPlain ==
    \/ \E k \in PlainKeys, v \in PlainVals : ActSet(Ref(1), k, v)
    \/ \E k \in PlainKeys : ActDel(Ref(1), k)
    \/ ActWatch(EvPath(1, <<"b">>), FALSE, TRUE)

SpecPlain == InitPlain /\ [][NextPlain]_vars

\* the last operation was set or del on a record that carries no node and
\* is no instance
OnUnobservedRecord ==
    /\ last.op \in {"set", "del"}
    /\ last.o # 0
    /\ pre.heap[last.o].kind = "rec"
    /\ ~pre.heap[last.o].isVue
    /\ pre.heap[last.o].ob = 0

\* set or del attached no node to the target and made no cell
NothingMadeReactive ==
    /\ heap[last.o].ob = 0
    /\ \A k \in DOMAIN heap[last.o].props :
          CellCount(Cur, last.o, k) = CellCount(PreState, last.o, k)

\* C38 as stated: set and del on a record without a node make no cell,
\* attach no node to the target and notify no dep.
C38_NothingNotified ==
    OnUnobservedRecord =>
        /\ NothingMadeReactive
        /\ CountKind(last.log, "notify") = 0

\* C38: set and del on a record without a node assign or delete only: the
\* target gets no node and no key gets a cell; set stores the value and
\* returns it, and the one dep it can notify is that of a cell the key
\* already is, when the value changes; del removes the key and notifies no
\* dep.
C38_PlainOnUnobserved ==
    OnUnobservedRecord =>
        /\ NothingMadeReactive
        /\ last.op = "set" =>
              /\ last.ret = last.v
              /\ ValueOf(Cur, last.o, last.k) = last.v
              /\ CountKind(last.log, "notify") =
                    IF WasCell(last.o, last.k)
                       /\ ~IsHeld(last.v, ValueOf(PreState, last.o, last.k))
                    THEN 1 ELSE 0
              /\ WasCell(last.o, last.k) =>
                    CountIn(last.log, Ev("notify", PreTopCell(last.o, last.k).dep, 0)) =
                       CountKind(last.log, "notify")
        /\ last.op = "del" =>
              /\ ~HasOwn(Cur, last.o, last.k)
              /\ CountKind(last.log, "notify") = 0

\* set added a key that holds a record to the record without a node
C38_Witness ==
    /\ OnUnobservedRecord
    /\ last.op = "set"
    /\ last.k = "k"
    /\ last.v = Ref(2)
    /\ ~HasOwn(PreState, 1, "k")
    /\ heap[1].props["k"] = DataProp(Ref(2))

\* set wrote through the cell of b, which a watcher reads
C38_WitnessCell ==
    /\ OnUnobservedRecord
    /\ last.op = "set"
    /\ WasCell(1, "b")
    /\ last.k = "b"
    /\ UpdatedIn(last.log) = <<1>>

\* del removed the cell of b
C38_WitnessDel ==
    /\ OnUnobservedRecord
    /\ last.op = "del"
    /\ WasCell(1, "b")
    /\ last.k = "b"

(***************************************************************************)
(* initProps.  1 and 2 are new instances, 3 and 4 are records not yet      *)
(* observed.                                                               *)
(***************************************************************************)
PropsHeap ==
    <<[Rec(NoProps) EXCEPT !.isVue = TRUE],
      [Rec(NoProps) EXCEPT !.isVue = TRUE],
      Rec([k \in {"a"} |-> DataProp(Num(1))]),
      Rec(NoProps)>>

\* props options with what validateProp returns for each key: no props; a
\* holds record 3; validateProp throws for a; a is 1 and validateProp
\* throws for b
PropsOpts ==
    <<<<>>,
      <<<<"a", Ref(3)>>>>,
      <<<<"a", Threw>>>>,
      <<<<"a", Num(1)>>, <<"b", Threw>>>>>>

InitPropsSpec == InitFrom(Blank(PropsHeap))

NextProps ==
    \/ \E vm \in {1, 2}, isRoot \in BOOLEAN, n \in DOMAIN PropsOpts :
          ActInitProps(vm, isRoot, PropsOpts, n)
    \/ ActObserve(Ref(4), FALSE)
    \/ \E vm \in {1, 2}, v \in {Num(2), Ref(4)} : HasOwn(Cur, vm, "a") /\ ActWrite(vm, "a", v)
    \/ \E vm \in {1, 2} : HasOwn(Cur, vm, "a") /\ ActRead(vm, "a")

SpecProps == InitPropsSpec /\ [][NextProps]_vars

\* C34: initProps pairs its toggle: outside initProps observation is
\* enabled, whatever way initProps was left, for root and other instances,
\* also when validateProp threw.
C34_TogglePaired == shouldObserve

\* validateProp threw in initProps of an instance that is no root:
\* observation stays disabled
C34_Witness ==
    /\ last.op = "initProps"
    /\ ~last.flag
    /\ last.ret = Threw
    /\ pre.shouldObserve
    /\ ~shouldObserve

\* initProps of an instance that is no root ended by its last statement:
\* the prop holds record 3, which got no node, and observation is enabled
C34_WitnessPaired ==
    /\ last.op = "initProps"
    /\ ~last.flag
    /\ last.n = 2
    /\ pre.shouldObserve
    /\ shouldObserve
    /\ heap[3].ob = 0
    /\ ValueOf(Cur, last.o, "a") = Ref(3)

(***************************************************************************)
(* initState.  Record 1 is observed state of a parent instance, its b is   *)
(* null, the number 5 or record 2; 3 and 5 are new instances; 4 is a       *)
(* record not yet observed.  The data functions are DataFns.               *)
(***************************************************************************)
StateHeap ==
    <<Rec([k \in {"b"} |-> DataProp(Ref(2))]),
      Rec(NoProps),
      [Rec(NoProps) EXCEPT !.isVue = TRUE],
      Rec([k \in {"a"} |-> DataProp(Num(1))]),
      [Rec(NoProps) EXCEPT !.isVue = TRUE]>>

InitStateSpec == InitFrom(Observe(Blank(StateHeap), Ref(1), TRUE).s)

NextState ==
    \/ \E vm \in {3, 5}, n \in {0} \cup DOMAIN DataFns : ActInitState(vm, DataFns, n)
    \/ \E v \in {Null, Num(5), Ref(2)} : ActWrite(1, "b", v)
    \/ \E vm \in {3, 5} : HasOwn(Cur, vm, "a") /\ ActRead(vm, "a")
    \/ \E vm \in {3, 5} : HasOwn(Cur, vm, "a") /\ ActWrite(vm, "a", Num(2))

SpecState == InitStateSpec /\ [][NextState]_vars

\* the value v carries a node that counts at least one instance
IsRootData(v) ==
    /\ IsRef(v)
    /\ heap[v[2]].ob # 0
    /\ obs[heap[v[2]].ob].vmCount >= 1

\* C37: once the state of an instance is initialised its vm._data carries
\* a node whose vmCount is at least 1, whether the data option is absent,
\* or its function returns a record, returns something else or throws.
C37_RootDataObserved ==
    \A vm \in {3, 5} : HasOwn(Cur, vm, "_data") => IsRootData(ValueOf(Cur, vm, "_data"))

\* the data function returned 5: vm._data is 5 and the record that was
\* observed in its place is not vm._data
C37_Witness ==
    /\ last.op = "initState"
    /\ last.n = 2
    /\ ValueOf(PreState, 1, "b") = Num(5)
    /\ ValueOf(Cur, last.o, "_data") = Num(5)
    /\ CountIn(last.log, Ev("warn", last.o, 0)) = 1
    /\ Len(heap) = Len(pre.heap) + 1
    /\ IsRootData(Ref(Len(heap)))

\* without a data option, and when the data function throws, vm._data is
\* a new record observed as root data
C37_WitnessFallback ==
    /\ last.op = "initState"
    /\ last.n \in {0, 3}
    /\ ValueOf(Cur, last.o, "_data") = Ref(Len(heap))
    /\ Len(heap) = Len(pre.heap) + 1
    /\ IsRootData(Ref(Len(heap)))

(***************************************************************************)
(* Vue.use.  1 is Vue and 2 a constructor made by Vue.extend, each with    *)
(* its own list; 3 is a plugin object whose install returns, 4 a plugin    *)
(* function, 5 a plugin whose install throws, 6 a plugin object without    *)
(* install, 7 a plugin whose install first uses plugin 3.                  *)
(***************************************************************************)
Installer(c) == Rec([k \in {"install"} |-> DataProp(<<"fn", c>>)])

UseHeap ==
    <<[Rec(NoProps) EXCEPT !.kind = "fn"],
      [Rec(NoProps) EXCEPT !.kind = "fn"],
      Installer(1),
      [Rec(NoProps) EXCEPT !.kind = "fn"],
      Installer(2),
      Rec(NoProps),
      Installer(3)>>

Plugins == 3..7

InitUse == InitFrom(Blank(UseHeap))

NextUse ==
    \/ \E p \in Plugins : ActUse(1, Ref(p))
    \/ \E p \in {3, 7} : ActUse(2, Ref(p))

SpecUse == InitUse /\ [][NextUse]_vars

\* the plugins installed on the constructor
InstalledOn(s, ctor) ==
    IF HasOwn(s, ctor, "_installedPlugins") THEN s.heap[InstalledList(s, ctor)].elems
    ELSE <<>>

\* the plugins the model calls: those with an install function and the
\* plugin function
Callable == {3, 4, 5, 7}

\* the installed list holds each plugin at most once, and a use of an
\* installed plugin changes nothing and returns the constructor
InstalledOnce ==
    /\ \A ctor \in {1, 2}, p \in Plugins : CountIn(InstalledOn(Cur, ctor), Ref(p)) <= 1
    /\ last.op = "use" /\ Contains(InstalledOn(PreState, last.o), last.v) =>
          /\ Snapshot(Cur) = pre
          /\ last.log = <<>>
          /\ last.ret = Ref(last.o)

C39_WitnessThrew ==
    /\ last.op = "use"
    /\ last.v = Ref(5)
    /\ last.ret = Threw
    /\ InstallCount(Cur, last.o, 5) = 2

(***************************************************************************)
(* The order of mutation, observation and notification in the intercepted  *)
(* operations, checked on the sequence of SpecArr.                         *)
(***************************************************************************)
\* the position of the first event of that kind in the log, 0 for none
RECURSIVE FirstEvent(_, _, _)
FirstEvent(log, kind, i) ==
    IF i > Len(log) THEN 0
    ELSE IF log[i][1] = kind THEN i
    ELSE FirstEvent(log, kind, i + 1)

\* the watchers the last operation re-invoked read the length the sequence
\* has now
SeesMutated ==
    \A i \in DOMAIN UpdatedIn(last.log) :
       ws[UpdatedIn(last.log)[i]].value = Num(Len(heap[last.o].elems))

\* the watchers the last operation re-invoked found the node of the
\* inserted composite v: they hold its structural dep
SeesNode(v) ==
    /\ heap[v[2]].ob # 0
    /\ \A i \in DOMAIN UpdatedIn(last.log) :
          obs[heap[v[2]].ob].dep \in ws[UpdatedIn(last.log)[i]].deps

\* the position of the last event of that kind in the log, 0 for none
RECURSIVE LastEvent(_, _, _)
LastEvent(log, kind, i) ==
    IF i = 0 THEN 0
    ELSE IF log[i][1] = kind THEN i
    ELSE LastEvent(log, kind, i - 1)

\* in the log of the last operation every node was made before the
\* notification
ObservedThenNotified ==
    /\ OneNotify
    /\ LastEvent(last.log, "observer", Len(last.log)) < FirstEvent(last.log, "notify", 1)

\* C32 as stated: the notification of an intercepted operation comes after
\* the mutation and after the inserted elements were observed: a subscriber
\* it re-invokes sees the mutated sequence and finds every new composite
\* element carrying an Observed Node.
C32_NotifiedLast ==
    ArrayCall =>
        /\ ObservedThenNotified
        /\ SeesMutated
        /\ \A v \in InsertedItems : IsRef(v) => SeesNode(v)

\* C32: the notification of an intercepted operation comes after the
\* mutation and after the inserted elements were handed to observe: a
\* subscriber it re-invokes sees the mutated sequence and finds every new
\* composite element that observe accepts (with observation enabled, or
\* carrying a node before) carrying its Observed Node; an inserted composite
\* that observe refuses carries none.
C32_NotifyAfterObserve ==
    ArrayCall =>
        /\ ObservedThenNotified
        /\ SeesMutated
        /\ \A v \in InsertedItems : IsRef(v) =>
              IF Observable(v[2]) /\ (pre.shouldObserve \/ pre.heap[v[2]].ob # 0)
              THEN SeesNode(v)
              ELSE heap[v[2]].ob = 0

\* a push inserted a record without a node while a watcher was subscribed:
\* the watcher was re-invoked, read the new length and found the node
C32_Witness ==
    /\ ArrayCall
    /\ last.op = "push"
    /\ UpdatedIn(last.log) # <<>>
    /\ \E v \in InsertedItems :
          IsRef(v) /\ pre.heap[v[2]].ob = 0 /\ SeesNode(v)
    /\ SeesMutated

\* a non-extensible record was inserted while a watcher was subscribed
C32_WitnessRefused ==
    /\ ArrayCall
    /\ UpdatedIn(last.log) # <<>>
    /\ Ref(4) \in InsertedItems
    /\ heap[4].ob = 0

(***************************************************************************)
(* Writes to cells.  Record 1 has a data key a, an accessor pair b, a      *)
(* getter without setter c and a data key k; each is made a Reactive Cell, *)
(* k a shallow one, and each has a watcher.  The values written are        *)
(* numbers, the record 2 and the non-extensible record 3.                  *)
(***************************************************************************)
WriteHeap ==
    <<Rec([k \in {"a", "b", "c", "k"} |->
             CASE k = "b" -> AccessorProp(TRUE, TRUE, Num(1))
               [] k = "c" -> AccessorProp(TRUE, FALSE, Num(1))
               [] OTHER -> DataProp(Num(1))]),
      Rec(NoProps),
      [Rec(NoProps) EXCEPT !.ext = FALSE]>>

WriteKeys == <<"a", "b", "c", "k">>

WriteVals == {Num(1), Num(5), Ref(2), Ref(3)}

RECURSIVE WriteCells(_, _), WriteWatchers(_, _)
WriteCells(s, i) ==
    IF i > Len(WriteKeys) THEN s
    ELSE WriteCells(DefineReactive(s, 1, WriteKeys[i], Undef, TRUE, FALSE,
                                   WriteKeys[i] = "k"),
                    i + 1)

WriteWatchers(s, i) ==
    IF i > Len(WriteKeys) THEN s
    ELSE WriteWatchers(NewWatcher(s, EvPath(1, <<WriteKeys[i]>>), FALSE, TRUE), i + 1)

InitWrite == InitFrom(WriteWatchers(WriteCells(Blank(WriteHeap), 1), 1))

NextWrite ==
    \/ \E k \in {"a", "b", "c", "k"}, v \in WriteVals : ActWrite(1, k, v)
    \/ \E b \in BOOLEAN : ActToggle(b)

SpecWrite == InitWrite /\ [][NextWrite]_vars

\* the watchers the last operation updated read the value written
SubscribersReadNew ==
    /\ UpdatedIn(last.log) # <<>>
    /\ \A i \in DOMAIN UpdatedIn(last.log) : ws[UpdatedIn(last.log)[i]].value = last.v

\* the value written carries a node, the cell refers to it, and the
\* watchers updated found it: they hold the structural dep of that node
FoundObserved ==
    /\ heap[last.v[2]].ob # 0
    /\ TopCell(1, last.k).childOb = heap[last.v[2]].ob
    /\ \A i \in DOMAIN UpdatedIn(last.log) :
          obs[heap[last.v[2]].ob].dep \in ws[UpdatedIn(last.log)[i]].deps
    /\ FirstEvent(last.log, "observer", 1) < FirstEvent(last.log, "notify", 1)

WriteObserved ==
    /\ IsRef(last.v)
    /\ ~PreTopCell(1, last.k).shallow
    /\ \/ pre.heap[last.v[2]].ob # 0
       \/ pre.shouldObserve /\ Observable(last.v[2])

C31_WitnessDelegate ==
    /\ ChangingWrite
    /\ last.k = "b"
    /\ CountIn(last.log, Ev("setter", 1, "b")) = 1
    /\ ws[2].value = last.v

\* a composite was written that received no node
C31_WitnessUnobserved ==
    /\ ChangingWrite
    /\ last.k \in {"a", "k"}
    /\ IsRef(last.v)
    /\ heap[last.v[2]].ob = 0
    /\ OneNotify

(***************************************************************************)
(* toggleObserving.  The record 1 and the sequence 2 are observed; the     *)
(* records 3 and 4 are the new composites handed to observe, and 3 to      *)
(* defineReactive, a cell write and set on the record, 4 to set on the     *)
(* sequence and to its inserting operations, with observation enabled and  *)
(* disabled.                                                               *)
(***************************************************************************)
ToggleHeap ==
    <<Rec([k \in {"a"} |-> DataProp(Num(1))]),
      Arr(<<>>),
      Rec(NoProps),
      Rec(NoProps)>>

ToggleVals == {Ref(3), Ref(4)}

InitToggle ==
    InitFrom(Observe(Observe(Blank(ToggleHeap), Ref(1), FALSE).s, Ref(2), FALSE).s)

NextToggle ==
    \/ \E b \in BOOLEAN : ActToggle(b)
    \/ \E v \in ToggleVals : ActObserve(v, FALSE)
    \/ ActDefineReactive(1, "b", Ref(3), FALSE, FALSE)
    \/ \E v \in {Ref(3), Num(1)} : ActWrite(1, "a", v)
    \/ ActSet(Ref(1), "k", Ref(3))
    \/ ActSet(Ref(2), "0", Ref(4))
    \/ \E m \in {"push", "unshift"} : ActArray(2, m, <<Ref(4)>>)
    \/ ActArray(2, "splice", <<Num(0), Num(1), Ref(4)>>)
    \/ ActArray(2, "pop", <<>>)

SpecToggle == InitToggle /\ [][NextToggle]_vars

\* the operations that hand a value to observe
Observing == {"observe", "defineReactive", "write", "set", "push", "unshift", "splice"}

\* the composite the last operation was given: its value argument
GivenValue == IF last.op \in {"push", "unshift", "splice"} THEN last.args[Len(last.args)]
              ELSE last.v

\* the last operation handed its value to observe: each of them does,
\* except a write or a set of the value the key holds already
HandedToObserve ==
    /\ last.op \in Observing
    /\ IsRef(GivenValue)
    /\ last.op \in {"write", "set"} /\ pre.heap[last.o].kind = "rec" =>
          ~IsHeld(last.v, ValueOf(PreState, last.o, last.k))

\* C33: while observation is disabled no operation - observe,
\* defineReactive, a value-changing cell write, set, an intercepted push,
\* unshift or splice - creates an Observed Node: every composite without a
\* node stays without one.  Once toggleObserving(true) was called, each of
\* these operations gives its new composite a node again.
C33_DisabledNoObservation ==
    /\ last.op \in Observing /\ ~pre.shouldObserve =>
          /\ obs = pre.obs
          /\ CountKind(last.log, "observer") = 0
          /\ \A o \in DOMAIN heap : heap[o].ob = pre.heap[o].ob
    /\ HandedToObserve /\ pre.shouldObserve => heap[GivenValue[2]].ob # 0

\* with observation disabled a record without a node was pushed into the
\* observed sequence and stayed without one
C33_Witness ==
    /\ last.op = "push"
    /\ ~pre.shouldObserve
    /\ IsRef(GivenValue)
    /\ heap[GivenValue[2]].ob = 0

\* the same for each other operation
C33_WitnessEach ==
    /\ last.op \in {"observe", "defineReactive", "write", "set", "unshift", "splice"}
    /\ HandedToObserve
    /\ ~pre.shouldObserve
    /\ heap[GivenValue[2]].ob = 0

\* observation was disabled and enabled again, and a record that had stayed
\* without a node received one
C33_WitnessResumed ==
    /\ HandedToObserve
    /\ pre.shouldObserve
    /\ pre.heap[GivenValue[2]].ob = 0
    /\ heap[GivenValue[2]].ob # 0
    /\ \/ \E k \in DOMAIN pre.heap[1].props : ValueOf(PreState, 1, k) = GivenValue
       \/ Contains(pre.heap[2].elems, GivenValue)

(***************************************************************************)
(* Deep observation.  The observed record 1 holds the sequence 2 under a   *)
(* and has a getter without setter c that returns the record 3; 3 and the  *)
(* non-extensible record 4 are written to the cells, set on the record and *)
(* on the sequence, and inserted into the sequence.  Observation stays     *)
(* enabled.                                                                *)
(***************************************************************************)
DeepHeap ==
    <<Rec([k \in {"a", "c"} |->
             IF k = "a" THEN DataProp(Ref(2)) ELSE AccessorProp(TRUE, FALSE, Ref(3))]),
      Arr(<<>>),
      Rec(NoProps),
      [Rec(NoProps) EXCEPT !.ext = FALSE]>>

DeepVals == {Num(1), Ref(3), Ref(4)}

DeepKeys == {"k", "toString"}

InitDeep == InitFrom(Observe(Blank(DeepHeap), Ref(1), FALSE).s)

NextDeep ==
    \/ \E k \in {"a", "c", "k", "toString"}, v \in DeepVals :
          k \in DOMAIN heap[1].props /\ ActWrite(1, k, v)
    \/ \E k \in DeepKeys, v \in DeepVals \ {Num(1)} : ActSet(Ref(1), k, v)
    \/ \E v \in DeepVals \ {Num(1)} : ActSet(Ref(2), "0", v)
    \/ \E k \in DeepKeys : ActDel(Ref(1), k)
    \/ ActDel(Ref(2), "0")
    \/ \E v \in DeepVals \ {Num(1)} : ActArray(2, "push", <<v>>)
    \/ ActArray(2, "pop", <<>>)

SpecDeep == InitDeep /\ [][NextDeep]_vars

\* the key k of the record o is a Reactive Cell that is not shallow and
\* does not wrap a getter without a setter
DeepCell(o, k) ==
    /\ heap[o].props[k].cells # <<>>
    /\ ~TopCell(o, k).shallow
    /\ ~(TopCell(o, k).getter /\ ~TopCell(o, k).setter)

\* the value v carries a node if it is an observable composite
Closed(v) == IsRef(v) /\ Observable(v[2]) => heap[v[2]].ob # 0

\* C35: with observation enabled, after any sequence of cell writes, set
\* and del calls and intercepted sequence operations on an observed graph,
\* every observable composite that is the value of a non-shallow Reactive
\* Cell that wraps no getter without a setter, or an element of an observed
\* sequence, carries an Observed Node.
C35_DeepClosure ==
    \A o \in DOMAIN heap : heap[o].ob # 0 =>
       IF heap[o].kind = "arr"
       THEN \A i \in DOMAIN heap[o].elems : Closed(heap[o].elems[i])
       ELSE \A k \in DOMAIN heap[o].props : DeepCell(o, k) => Closed(ValueOf(Cur, o, k))

\* the record 3 is the value of a cell of the record 1 and an element of
\* the sequence 2, and carries a node it did not have at first, while the
\* non-extensible record 4 is the value of another cell
C35_Witness ==
    /\ heap[3].ob # 0
    /\ \E k \in DOMAIN heap[1].props : DeepCell(1, k) /\ ValueOf(Cur, 1, k) = Ref(3)
    /\ \E k \in DOMAIN heap[1].props : DeepCell(1, k) /\ ValueOf(Cur, 1, k) = Ref(4)
    /\ heap[2].ob # 0
    /\ Contains(heap[2].elems, Ref(3))

\* the getter without a setter returns the record 3, which carries no node
C35_WitnessGetterOnly ==
    /\ ValueOf(Cur, 1, "c") = Ref(3)
    /\ heap[3].ob = 0
    /\ last.op = "write"
    /\ last.k = "c"

\* the key toString was set twice on the record
C35_WitnessStacked ==
    /\ "toString" \in DOMAIN heap[1].props
    /\ Len(heap[1].props["toString"].cells) = 2
    /\ IsRef(ValueOf(Cur, 1, "toString"))

(***************************************************************************)
(* The cache of computed properties.  The data record 1 holds the record 2 *)
(* under a and returns it from the getter without setter c; the sequence 3 *)
(* can be written to a.  The computed properties are a.k, c.k and the      *)
(* length of a.                                                            *)
(***************************************************************************)
CacheHeap ==
    <<Rec([k \in {"a", "c"} |->
             IF k = "a" THEN DataProp(Ref(2)) ELSE AccessorProp(TRUE, FALSE, Ref(2))]),
      Rec(NoProps),
      Arr(<<>>)>>

CacheVals == {Num(1), Num(5)}

\* initState: initData observes the data, initComputed makes the lazy
\* watchers
InitCache ==
    InitFrom(NewWatcher(
               NewWatcher(
                 NewWatcher(Observe(Blank(CacheHeap), Ref(1), TRUE).s,
                            EvPath(1, <<"a", "k">>), TRUE, FALSE),
                 EvPath(1, <<"c", "k">>), TRUE, FALSE),
               EvLen(1, "a"), TRUE, FALSE))

NextCache ==
    \/ \E w \in 1..3 : ActReadComputed(w)
    \/ ActWrite(1, "a", Ref(3))
    \/ \E v \in CacheVals : "k" \in DOMAIN heap[2].props /\ ActWrite(2, "k", v)
    \/ ActSet(Ref(2), "k", Num(1))
    \/ ActDel(Ref(2), "k")
    \/ ActArray(3, "push", <<Num(1)>>)

SpecCache == InitCache /\ [][NextCache]_vars

\* in the state s the computed watcher w is not dirty and its cached value
\* is not what its getter returns
Stale(s, w) ==
    /\ s.ws[w].lazy
    /\ ~s.ws[w].dirty
    /\ s.ws[w].value # Evaluate([s EXCEPT !.targetStack = <<>>], s.ws[w].getter).ret

\* C36 as stated: outside an evaluation the cached value of a computed
\* watcher that is not dirty is what its getter returns on the current
\* state.
C36_CacheCoherent == \A w \in DOMAIN ws : ~Stale(Cur, w)

\* C36: outside an evaluation the cached value of a computed watcher that
\* is not dirty is what its getter returns on the current state, for a
\* getter that reaches every composite it reads through Reactive Cells that
\* refer to the composite's node (a.k and the length of a).  A getter that
\* reaches a composite through a getter without a setter (c.k) is marked
\* dirty by every value-changing write to a cell it read, but not by a set
\* or del on that composite, which leave its cache stale.
C36_CacheCoherentLinked ==
    /\ ~Stale(Cur, 1)
    /\ ~Stale(Cur, 3)
    /\ last.op = "write" /\ ChangingWrite
          /\ PreTopCell(last.o, last.k).dep \in pre.ws[2].deps => ws[2].dirty
    /\ last.op \in {"write", "set", "del", "push"} =>
          \A w \in {1, 3} :
             /\ ~pre.ws[w].dirty
             /\ pre.ws[w].value # Evaluate(Cur, ws[w].getter).ret
             => ws[w].dirty

\* a.k was read and cached, and set on the record 2 marked it dirty
C36_Witness ==
    /\ last.op = "set"
    /\ last.o = 2
    /\ ~pre.ws[1].dirty
    /\ pre.ws[1].value = Undef
    /\ ws[1].dirty
    /\ Evaluate(Cur, ws[1].getter).ret = last.v

\* the same for the length of a and a push
C36_WitnessPush ==
    /\ last.op = "push"
    /\ ~pre.ws[3].dirty
    /\ pre.ws[3].value = Num(0)
    /\ ws[3].dirty

\* c.k was read and cached, and set on the record 2 left it clean and
\* stale
C36_WitnessStale ==
    /\ last.op = "set"
    /\ ~Stale(PreState, 2)
    /\ Stale(Cur, 2)

\* c.k was read when k was a cell, and a write to k marked it dirty
C36_WitnessWrite ==
    /\ last.op = "write"
    /\ last.o = 2
    /\ ~pre.ws[2].dirty
    /\ ws[2].dirty

=============================================================================
